---- MODULE Spec2Model ----
(***************************************************************************)
(* Authentication and account-security core of the shopping platform        *)
(* backend: credential records, account lockout, refresh-token rotation,    *)
(* sessions with idle timeout, TOTP multi-factor login with backup codes.   *)
(*                                                                          *)
(* Time is counted in seconds.  Every request handler is one action unless  *)
(* a property is about the interleaving of its awaits (refreshAccessToken), *)
(* in which case the handler is split at its awaits.                        *)
(***************************************************************************)
EXTENDS Integers, Sequences, FiniteSets, TLC

VARIABLES
    now,          \* Date.now(), in seconds
    ticks,        \* number of clock advances so far (bounds the run)
    users,        \* the User collection, keyed by email
    sessions,     \* the Session collection, keyed by session token
    issuedRefresh,\* refresh JWTs handed to clients so far
    issuedAccess, \* access JWTs handed to clients so far
    issuedCodes,  \* backup codes shown to clients so far (plaintext)
    nextCode,     \* number of backup codes generated so far
    rq,           \* refreshAccessToken requests in flight, per worker
    consecFails,  \* per email: consecutive login calls that failed the password check
    rotated,      \* refresh tokens superseded by a completed rotation
    acceptedTotp, \* per email: TOTP codes verifyTOTPLogin has accepted
    usedCodes,    \* backup codes verifyTOTPLogin has accepted
    crypto,       \* a field under encryption: plaintext, envelopes, decryption
    mfaPending,   \* per email: the last login call passed the password check
                  \* and answered requiresTOTP, and no tokens were issued since
    resp          \* the response (and request) of the last handler that completed

vars == << now, ticks, users, sessions, issuedRefresh, issuedAccess, issuedCodes,
           nextCode, rq, consecFails, rotated, acceptedTotp,
           usedCodes, crypto, mfaPending, resp >>

----------------------------------------------------------------------------
(* Bounds of the model *)

MaxTicks == 3
MaxRefreshTicks == 1
MaxTotpTicks == 1
MaxSessionTicks == 2
MaxSessions == 2
MaxBatches == 2
MaxPasswordTicks == 2
MaxLen == 3
MaxOpsTicks == 1

(* Program constants *)

maxFailedAttempts == 5
lockDuration == 300
sessionIdleTimeout == 900
accessTokenExpiry == 900
refreshTokenExpiry == 604800
verificationExpiry == 600
totpStep == 30
totpWindow == 1
BackupCodeCount == 10
passwordExpiry == 7776000
expiryWarningDays == 14
resetTokenExpiry == 3600
SecondsPerDay == 86400

HTTP_OK == 200
HTTP_CREATED == 201
HTTP_BAD_REQUEST == 400
HTTP_UNAUTHORIZED == 401
HTTP_FORBIDDEN == 403
HTTP_NOT_FOUND == 404
HTTP_CONFLICT == 409
HTTP_SERVER_ERROR == 500

NULL == -1

----------------------------------------------------------------------------
(* Values *)

Emails == {"real@x.com", "nonexistent@x.com"}
Registrable == {"real@x.com"}
Workers == {1, 2}
Pins == {111111, 222222}
Secrets == {1}
TotpSessionTokens == {1}

\* A string handed to bcrypt: a password, a refresh JWT or a backup code.
Str(kind, id, v) == [kind |-> kind, id |-> id, v |-> v]
NoStr == Str("none", "", 0)
Passwords == {Str("pw", "", 1), Str("pw", "", 2)}
GarbageToken == Str("rt", "", 0)

\* jwt.sign: the refresh token carries the subject id and iat (in seconds);
\* two tokens for one subject signed in the same second are the same string.
generateRefreshToken(id) == Str("rt", id, now)
generateAccessToken(id) == [id |-> id, iat |-> now]
NoAccess == [id |-> "", iat |-> NULL]

\* jwt.verify: signature (the token was issued by this server) and exp.
verifyRefreshToken(t) == t \in issuedRefresh /\ now < t.v + refreshTokenExpiry
verifyAccessToken(t) == t \in issuedAccess /\ now < t.iat + accessTokenExpiry

\* bcrypt reads only the first 72 bytes of its input.  A refresh JWT is
\* header(36) "." payload..., and the payload starts {"id":"<24 hex>","iat":...
\* so the first 72 bytes hold the header and 19 hex digits of the subject
\* id: iat, exp and the signature lie beyond them.  Passwords and backup
\* codes are shorter than 72 bytes and are read whole.
Truncate72(s) == IF s.kind = "rt" THEN [s EXCEPT !.v = 0] ELSE s

NoHash == [kind |-> "none", of |-> NoStr]
hashPassword(s) == [kind |-> "bcrypt", of |-> Truncate72(s)]
comparePassword(s, h) == h.kind = "bcrypt" /\ h.of = Truncate72(s)

\* A string-valued field: null, a string of code units, or the error thrown
\* in place of a value.
NullField == [kind |-> "null", value |-> << >>]
StringField(s) == [kind |-> "string", value |-> s]
Threw(message) == [kind |-> message, value |-> << >>]

NoUser ==
    [ exists |-> FALSE, password |-> NoHash, isEmailVerified |-> FALSE,
      emailVerificationToken |-> 0, emailVerificationExpires |-> NULL,
      isSuspended |-> FALSE, isActive |-> TRUE, authProvider |-> "local",
      googleLinked |-> FALSE,
      failedLoginAttempts |-> 0, accountLockedUntil |-> NULL,
      refreshTokenHash |-> NoHash, refreshTokenExpires |-> NULL,
      totpEnabled |-> FALSE, totpSecret |-> 0, totpVerified |-> FALSE,
      backupCodes |-> << >>,
      passwordChangedAt |-> NULL, passwordExpiresAt |-> NULL,
      passwordResetToken |-> 0, passwordResetExpires |-> NULL,
      passwordHistory |-> << >>, phone |-> NullField ]

NoSession ==
    [ exists |-> FALSE, userId |-> "", refreshTokenHash |-> NoHash,
      isActive |-> FALSE, lastActivity |-> NULL, expiresAt |-> NULL,
      isTrusted |-> FALSE ]

NoResp ==
    [ op |-> "none", email |-> "", password |-> NoStr, at |-> 0,
      status |-> 0, message |-> "", code |-> "", reason |-> "",
      tokens |-> FALSE, pwChecked |-> FALSE, handlerRan |-> FALSE,
      pre |-> NoUser, preFails |-> 0, token |-> NoStr, newToken |-> NoStr,
      reused |-> FALSE, sid |-> 0, preS |-> NoSession, access |-> NoAccess,
      totp |-> << 0, 0 >>, useBackupCode |-> FALSE, replay |-> FALSE,
      pin |-> 0, newPassword |-> NoStr, path |-> "", warning |-> NULL,
      attempts |-> << >>, audit |-> << >>, mfaPending |-> FALSE,
      target |-> 0, preT |-> NoSession ]

NoRequest == [pc |-> "idle", token |-> NoStr, user |-> NoUser,
              overlap |-> FALSE, reused |-> FALSE, result |-> "none"]

Min(a, b) == IF a < b THEN a ELSE b

----------------------------------------------------------------------------
(* models/User.js *)

isAccountLocked(u) == u.accountLockedUntil # NULL /\ u.accountLockedUntil > now

incrementLoginAttempts(u) ==
    IF u.accountLockedUntil # NULL /\ u.accountLockedUntil < now
    THEN [u EXCEPT !.failedLoginAttempts = 1, !.accountLockedUntil = NULL]
    ELSE LET n == u.failedLoginAttempts + 1
         IN  [u EXCEPT !.failedLoginAttempts = n,
                       !.accountLockedUntil =
                           IF n >= maxFailedAttempts THEN now + lockDuration
                                                     ELSE u.accountLockedUntil]

resetLoginAttempts_keepsLock(u) == [u EXCEPT !.failedLoginAttempts = 0]

resetLoginAttempts(u) ==
    [u EXCEPT !.failedLoginAttempts = 0, !.accountLockedUntil = NULL]

----------------------------------------------------------------------------
(* The clock *)

Tick(d, max) ==
    /\ ticks < max
    /\ now' = now + d
    /\ ticks' = ticks + 1
    /\ UNCHANGED << crypto, mfaPending, users, sessions, issuedRefresh, issuedAccess, issuedCodes,
                    nextCode, rq, consecFails, rotated,
                    acceptedTotp, usedCodes, resp >>

----------------------------------------------------------------------------
(* models/AuditLog.js, models/LoginAttempt.js, services/audit.service.js *)

\* Whether the insert into the audit collection succeeds is an input of
\* every request that logs.
AuditWrites == BOOLEAN

createLog_rethrows(ok, logData) ==
    [threw |-> ~ok, stored |-> ok, event |-> logData]

\* createLog catches the error of a failed insert and returns null.
createLog(ok, logData) ==
    [threw |-> FALSE, stored |-> ok, event |-> logData]

\* type is "auth:<action>"; the caller's success flag and reason go into
\* details.  The value createLog returns is dropped.
logSecurityEvent(ok, action, success, reason) ==
    createLog(ok, [category |-> "auth", action |-> action,
                   success |-> success, reason |-> reason])

logAuthEvent(ok, type, success, reason) ==
    logSecurityEvent(ok, type, success, reason)

logFailedLogin(ok, reason) ==
    logSecurityEvent(ok, "failed_login", FALSE, reason)

\* A handler that calls the audit service without await goes on whatever
\* the call does; one that awaits it ends in its catch block, and so in the
\* 500 of errorHandler, when the call throws.
FireLog(r, log) == [r EXCEPT !.audit = Append(@, log.event)]

AwaitLog(r, log) ==
    IF log.threw
    THEN [r EXCEPT !.status = HTTP_SERVER_ERROR,
                   !.message = "Failed to create audit log",
                   !.tokens = FALSE, !.newToken = NoStr, !.access = NoAccess,
                   !.audit = Append(@, log.event)]
    ELSE [r EXCEPT !.audit = Append(@, log.event)]

\* middleware/auditLog.js: logAction wraps res.json and, once the handler
\* has answered, inserts one event whose success flag is that of the body.
logAction(ok, category, action, r) ==
    [r EXCEPT !.audit =
        Append(@, createLog(ok, [category |-> category, action |-> action,
                                 success |-> r.status < HTTP_BAD_REQUEST,
                                 reason |-> ""]).event)]

\* The document LoginAttempt.create inserts.
LoginAttempt(success, failureReason) ==
    [success |-> success, failureReason |-> failureReason]

----------------------------------------------------------------------------
(* controllers/auth.controller.js *)

Request(op, e) ==
    [NoResp EXCEPT !.op = op, !.email = e, !.at = now,
                   !.pre = IF e \in Emails THEN users[e] ELSE NoUser,
                   !.preFails = IF e \in Emails THEN consecFails[e] ELSE 0]

register(e, p, pin, ok) ==
    /\ IF users[e].exists
       THEN /\ resp' = [Request("register", e) EXCEPT !.password = p,
                           !.status = HTTP_CONFLICT,
                           !.message = "User with this email already exists"]
            /\ UNCHANGED users
       ELSE /\ users' = [users EXCEPT ![e] =
                           [NoUser EXCEPT !.exists = TRUE,
                               !.password = hashPassword(p),
                               !.emailVerificationToken = pin,
                               !.emailVerificationExpires = now + verificationExpiry,
                               !.passwordChangedAt = now,
                               !.passwordExpiresAt = now + passwordExpiry]]
            /\ resp' = FireLog([Request("register", e) EXCEPT !.password = p,
                                    !.status = HTTP_CREATED,
                                    !.message = "Registration successful"],
                                logAuthEvent(ok, "register", TRUE, ""))
    /\ UNCHANGED << crypto, mfaPending, now, ticks, sessions, issuedRefresh, issuedAccess,
                    issuedCodes, nextCode, rq, consecFails,
                    rotated, acceptedTotp, usedCodes >>

\* The auto-login of verifyEmail sets the two token cookies but stores no
\* refresh-token hash and creates no session.
verifyEmail(e, pin, ok) ==
    LET u == users[e]
        found == /\ u.exists
                 /\ u.emailVerificationToken = pin
                 /\ u.emailVerificationExpires # NULL
                 /\ u.emailVerificationExpires > now
    IN
    /\ IF ~found
       THEN /\ resp' = [Request("verifyEmail", e) EXCEPT
                           !.pin = pin,
                           !.status = HTTP_BAD_REQUEST,
                           !.message = "Invalid or expired PIN"]
            /\ UNCHANGED << users, issuedRefresh, issuedAccess >>
       ELSE /\ users' = [users EXCEPT ![e] =
                           [u EXCEPT !.isEmailVerified = TRUE,
                                     !.emailVerificationToken = 0,
                                     !.emailVerificationExpires = NULL]]
            /\ issuedRefresh' = issuedRefresh \cup {generateRefreshToken(e)}
            /\ issuedAccess' = issuedAccess \cup {generateAccessToken(e)}
            /\ resp' = FireLog([Request("verifyEmail", e) EXCEPT
                           !.pin = pin,
                           !.status = HTTP_OK, !.tokens = TRUE,
                           !.newToken = generateRefreshToken(e),
                           !.access = generateAccessToken(e),
                           !.message = "Email verified successfully! You are now logged in."],
                                logAuthEvent(ok, "email_verified", TRUE, ""))
    /\ UNCHANGED << crypto, mfaPending, now, ticks, sessions, issuedCodes, nextCode, rq, consecFails, rotated, acceptedTotp, usedCodes >>

UnknownUserResponse ==
    [status |-> HTTP_UNAUTHORIZED, message |-> "Invalid email or password",
     reason |-> "invalid_credentials"]
SuspendedResponse ==
    [status |-> HTTP_FORBIDDEN, message |-> "Your account has been suspended",
     reason |-> "account_suspended"]
LockedResponse ==
    [status |-> HTTP_UNAUTHORIZED,
     message |-> "Account locked due to multiple failed login attempts",
     reason |-> "account_locked"]
NotVerifiedResponse ==
    [status |-> HTTP_FORBIDDEN,
     message |-> "Please verify your email before logging in",
     reason |-> "email_not_verified"]
WrongPasswordResponse_distinct ==
    [status |-> HTTP_UNAUTHORIZED, message |-> "Incorrect password",
     reason |-> "invalid_credentials"]
WrongPasswordResponse ==
    [status |-> HTTP_UNAUTHORIZED, message |-> "Invalid email or password",
     reason |-> "invalid_credentials"]

Reject(rqst, r) ==
    [rqst EXCEPT !.status = r.status, !.message = r.message, !.reason = r.reason]

\* A rejected login: one LoginAttempt with the response's failure reason,
\* then logFailedLogin with the reason the handler passes to it.
Failed(rqst, r, ok, auditReason) ==
    FireLog([Reject(rqst, r) EXCEPT
                !.attempts = << LoginAttempt(FALSE, r.reason) >>],
            logFailedLogin(ok, auditReason))

\* The checks of login in the order the handler makes them.
LoginOutcome(u, p) ==
    IF ~u.exists THEN "unknown"
    ELSE IF u.isSuspended THEN "suspended"
    ELSE IF isAccountLocked(u) THEN "locked"
    ELSE IF ~u.isEmailVerified THEN "unverified"
    ELSE IF u.password = NoHash THEN "error"
    ELSE IF ~comparePassword(p, u.password) THEN "wrong_password"
    ELSE IF u.totpEnabled THEN "requires_totp"
    ELSE "success"

login(e, p, ok) ==
    LET u == users[e]
        o == LoginOutcome(u, p)
        rqst == [Request("login", e) EXCEPT !.password = p,
                    !.pwChecked = o \in {"wrong_password", "requires_totp", "success"}]
        rt == generateRefreshToken(e)
    IN
    /\ CASE o = "unknown" ->
              /\ resp' = Failed(rqst, UnknownUserResponse, ok, "invalid_credentials")
              /\ UNCHANGED << users, issuedRefresh, issuedAccess, consecFails >>
         [] o = "suspended" ->
              /\ resp' = Failed(rqst, SuspendedResponse, ok, "account_suspended")
              /\ UNCHANGED << users, issuedRefresh, issuedAccess, consecFails >>
         [] o = "locked" ->
              /\ resp' = Failed(rqst, LockedResponse, ok, "account_locked")
              /\ UNCHANGED << users, issuedRefresh, issuedAccess, consecFails >>
         [] o = "unverified" ->
              /\ resp' = Failed(rqst, NotVerifiedResponse, ok, "email_not_verified")
              /\ UNCHANGED << users, issuedRefresh, issuedAccess, consecFails >>
         [] o = "error" ->
              \* bcrypt.compare throws on a missing hash: errorHandler answers 500
              /\ resp' = [rqst EXCEPT !.status = HTTP_SERVER_ERROR,
                                      !.message = "Error comparing passwords"]
              /\ UNCHANGED << users, issuedRefresh, issuedAccess, consecFails >>
         [] o = "wrong_password" ->
              /\ users' = [users EXCEPT ![e] = incrementLoginAttempts(u)]
              /\ consecFails' = [consecFails EXCEPT
                                    ![e] = Min(@ + 1, maxFailedAttempts + 1)]
              /\ resp' = Failed(rqst, WrongPasswordResponse, ok, "invalid_password")
              /\ UNCHANGED << issuedRefresh, issuedAccess >>
         [] o = "requires_totp" ->
              /\ users' = [users EXCEPT ![e] = resetLoginAttempts(u)]
              /\ consecFails' = [consecFails EXCEPT ![e] = 0]
              /\ resp' = [rqst EXCEPT !.status = HTTP_OK,
                             !.message = "Please enter your authenticator code",
                             !.code = "requiresTOTP"]
              /\ UNCHANGED << issuedRefresh, issuedAccess >>
         [] o = "success" ->
              /\ users' = [users EXCEPT ![e] =
                             [resetLoginAttempts(u) EXCEPT
                                 !.refreshTokenHash = hashPassword(rt),
                                 !.refreshTokenExpires = now + refreshTokenExpiry]]
              /\ consecFails' = [consecFails EXCEPT ![e] = 0]
              /\ issuedRefresh' = issuedRefresh \cup {rt}
              /\ issuedAccess' = issuedAccess \cup {generateAccessToken(e)}
              /\ resp' = FireLog([rqst EXCEPT !.status = HTTP_OK, !.tokens = TRUE,
                                     !.newToken = rt, !.access = generateAccessToken(e),
                                     !.attempts = << LoginAttempt(TRUE, "") >>,
                                     !.message = "Login successful"],
                                  logAuthEvent(ok, "login", TRUE, ""))
    /\ mfaPending' = [mfaPending EXCEPT ![e] = (o = "requires_totp")]
    /\ UNCHANGED << crypto, now, ticks, sessions, issuedCodes, nextCode, rq, rotated, acceptedTotp, usedCodes >>

\* refreshAccessToken, split at its awaits: (1) jwt.verify and
\* User.findById, with the checks on the document read; (2) the bcrypt
\* comparison against the hash that was read; (3) generateTokenPair,
\* hashPassword and user.save(), which writes the two modified paths
\* without any condition on what is stored.
RefreshDone(w, T, status, message, result, newT) ==
    /\ rq' = [rq EXCEPT ![w] = [@ EXCEPT !.pc = "done", !.token = T,
                                         !.result = result]]
    /\ resp' = [Request("refresh", T.id) EXCEPT !.token = T,
                   !.status = status, !.message = message,
                   !.tokens = (result = "ok"), !.newToken = newT,
                   !.reused = IF rq[w].pc \in {"idle", "done"}
                              THEN T \in rotated ELSE rq[w].reused]

Overlapping(w, T) ==
    \E v \in Workers \ {w} : rq[v].pc \in {"compare", "save"} /\ rq[v].token = T

refreshRead(w, T) ==
    /\ rq[w].pc \in {"idle", "done"}
    /\ IF T = NoStr
       THEN /\ RefreshDone(w, GarbageToken, HTTP_UNAUTHORIZED,
                           "Authentication required", "missing", NoStr)
       ELSE IF ~verifyRefreshToken(T)
       THEN \* verifyRefreshToken throws a plain Error: errorHandler answers 500
            /\ RefreshDone(w, T, HTTP_SERVER_ERROR, "Invalid refresh token",
                           "error", NoStr)
       ELSE IF \/ ~users[T.id].exists
               \/ users[T.id].refreshTokenHash = NoHash
               \/ users[T.id].refreshTokenExpires < now
       THEN /\ RefreshDone(w, T, HTTP_UNAUTHORIZED, "Invalid or expired token",
                           "invalid", NoStr)
       ELSE /\ rq' = [v \in Workers |->
                        IF v = w
                        THEN [pc |-> "compare", token |-> T, user |-> users[T.id],
                              overlap |-> Overlapping(w, T),
                              reused |-> T \in rotated, result |-> "none"]
                        ELSE IF rq[v].pc \in {"compare", "save"} /\ rq[v].token = T
                        THEN [rq[v] EXCEPT !.overlap = TRUE]
                        ELSE rq[v]]
            /\ UNCHANGED resp
    /\ UNCHANGED << crypto, mfaPending, now, ticks, users, sessions, issuedRefresh, issuedAccess,
                    issuedCodes, nextCode, consecFails, rotated,
                    acceptedTotp, usedCodes >>

refreshCompare(w) ==
    /\ rq[w].pc = "compare"
    /\ IF ~comparePassword(rq[w].token, rq[w].user.refreshTokenHash)
       THEN /\ RefreshDone(w, rq[w].token, HTTP_UNAUTHORIZED,
                           "Invalid or expired token", "invalid", NoStr)
       ELSE /\ rq' = [rq EXCEPT ![w].pc = "save"]
            /\ UNCHANGED resp
    /\ UNCHANGED << crypto, mfaPending, now, ticks, users, sessions, issuedRefresh, issuedAccess,
                    issuedCodes, nextCode, consecFails, rotated,
                    acceptedTotp, usedCodes >>

refreshSaveUnconditional(w, newT) ==
    [users EXCEPT ![rq[w].token.id] =
        [@ EXCEPT !.refreshTokenHash = hashPassword(newT),
                  !.refreshTokenExpires = now + refreshTokenExpiry]]

refreshSave(w) ==
    LET T == rq[w].token
        newT == generateRefreshToken(T.id)
    IN
    /\ rq[w].pc = "save"
    /\ users' = refreshSaveUnconditional(w, newT)
    /\ issuedRefresh' = issuedRefresh \cup {newT}
    /\ issuedAccess' = issuedAccess \cup {generateAccessToken(T.id)}
    /\ rotated' = (rotated \cup {T}) \ {newT}
    /\ RefreshDone(w, T, HTTP_OK, "Token refreshed successfully", "ok", newT)
    /\ UNCHANGED << crypto, mfaPending, now, ticks, sessions, issuedCodes, nextCode, consecFails, acceptedTotp, usedCodes >>

----------------------------------------------------------------------------
(* controllers/admin.controller.js *)

suspendUser(e) ==
    /\ users[e].exists
    /\ users' = [users EXCEPT ![e].isSuspended = TRUE]
    /\ resp' = [Request("suspendUser", e) EXCEPT !.status = HTTP_OK]
    /\ UNCHANGED << crypto, mfaPending, now, ticks, sessions, issuedRefresh, issuedAccess,
                    issuedCodes, nextCode, rq, consecFails,
                    rotated, acceptedTotp, usedCodes >>

unsuspendUser(e) ==
    /\ users[e].exists
    /\ users' = [users EXCEPT ![e].isSuspended = FALSE]
    /\ resp' = [Request("unsuspendUser", e) EXCEPT !.status = HTTP_OK]
    /\ UNCHANGED << crypto, mfaPending, now, ticks, sessions, issuedRefresh, issuedAccess,
                    issuedCodes, nextCode, rq, consecFails,
                    rotated, acceptedTotp, usedCodes >>

----------------------------------------------------------------------------
(* controllers/oauth.controller.js, services/session.service.js *)

createSession(s, e, h) ==
    [sessions EXCEPT ![s] =
        [ exists |-> TRUE, userId |-> e, refreshTokenHash |-> h,
          isActive |-> TRUE, lastActivity |-> now,
          expiresAt |-> now + refreshTokenExpiry, isTrusted |-> FALSE ]]

\* Google identifies the account by its email; emailVerified is the
\* email_verified claim of the Google credential; s is the session token
\* that generateSessionToken draws, one that no session has had (tokens are
\* numbered in the order they are drawn).
googleAuth(e, emailVerified, s, ok) ==
    LET old == users[e]
        u == IF old.exists
             THEN IF ~old.googleLinked /\ old.authProvider = "local"
                  THEN [old EXCEPT !.googleLinked = TRUE, !.authProvider = "google"]
                  ELSE old
             ELSE [NoUser EXCEPT !.exists = TRUE, !.googleLinked = TRUE,
                                 !.authProvider = "google",
                                 !.isEmailVerified = TRUE,
                                 !.passwordChangedAt = now,
                                 !.passwordExpiresAt = now + passwordExpiry]
        rt == generateRefreshToken(e)
        \* the event of the find-or-create step, logged before the checks
        rqst == IF old.exists
                THEN IF ~old.googleLinked /\ old.authProvider = "local"
                     THEN FireLog(Request("googleAuth", e),
                                  logAuthEvent(ok, "google_account_linked", TRUE,
                                               "Google account linked to existing user"))
                     ELSE Request("googleAuth", e)
                ELSE FireLog(Request("googleAuth", e),
                             logAuthEvent(ok, "register_google", TRUE,
                                          "New user registered via Google OAuth"))
    IN
    /\ sessions[s].userId = ""
    /\ \A k \in 1..(s - 1) : sessions[k].userId # ""
    /\ IF ~emailVerified
       THEN /\ resp' = logAction(ok, "auth", "google_oauth_attempt", [Request("googleAuth", e) EXCEPT
                           !.status = HTTP_UNAUTHORIZED,
                           !.message = "Google email is not verified"])
            /\ UNCHANGED << users, sessions, issuedRefresh, issuedAccess, consecFails >>
       ELSE IF ~u.isActive
       THEN /\ users' = [users EXCEPT ![e] = u]
            /\ resp' = logAction(ok, "auth", "google_oauth_attempt", [rqst EXCEPT !.status = HTTP_FORBIDDEN,
                           !.message = "Your account has been suspended. Please contact support."])
            /\ UNCHANGED << sessions, issuedRefresh, issuedAccess, consecFails >>
       ELSE IF u.accountLockedUntil # NULL /\ u.accountLockedUntil > now
       THEN /\ users' = [users EXCEPT ![e] = u]
            /\ resp' = logAction(ok, "auth", "google_oauth_attempt", [rqst EXCEPT !.status = HTTP_FORBIDDEN,
                                    !.message = "Account is locked.",
                                    !.reason = "account_locked"])
            /\ UNCHANGED << sessions, issuedRefresh, issuedAccess, consecFails >>
       ELSE /\ users' = [users EXCEPT ![e] =
                           [u EXCEPT !.refreshTokenHash = hashPassword(rt),
                                     !.refreshTokenExpires = now + refreshTokenExpiry,
                                     !.failedLoginAttempts = 0,
                                     !.accountLockedUntil = NULL]]
            /\ sessions' = createSession(s, e, hashPassword(rt))
            /\ issuedRefresh' = issuedRefresh \cup {rt}
            /\ issuedAccess' = issuedAccess \cup {generateAccessToken(e)}
            /\ consecFails' = [consecFails EXCEPT ![e] = 0]
            /\ resp' = logAction(ok, "auth", "google_oauth_attempt", FireLog([rqst EXCEPT !.status = HTTP_OK, !.tokens = TRUE,
                                    !.newToken = rt, !.access = generateAccessToken(e),
                                    !.sid = s, !.message = "Google login successful"],
                                logAuthEvent(ok, "login_google", TRUE,
                                             "User logged in via Google OAuth")))
    /\ UNCHANGED << crypto, mfaPending, now, ticks, issuedCodes, nextCode, rq, rotated,
                    acceptedTotp, usedCodes >>

getSessionByToken(s) ==
    /\ s \in DOMAIN sessions
    /\ sessions[s].exists
    /\ sessions[s].isActive
    /\ sessions[s].expiresAt > now

\* verifySession(sessionToken, refreshToken) of the session service.
verifySession(s, rt) ==
    LET found == getSessionByToken(s)
        isValid == found /\ comparePassword(rt, sessions[s].refreshTokenHash)
    IN
    /\ resp' = [Request("verifySession", rt.id) EXCEPT !.sid = s, !.token = rt,
                   !.preS = IF s \in DOMAIN sessions THEN sessions[s] ELSE NoSession,
                   !.handlerRan = isValid,
                   !.status = IF isValid THEN HTTP_OK ELSE HTTP_UNAUTHORIZED]
    /\ sessions' = IF isValid THEN [sessions EXCEPT ![s].lastActivity = now]
                              ELSE sessions
    /\ UNCHANGED << crypto, mfaPending, now, ticks, users, issuedRefresh, issuedAccess, issuedCodes,
                    nextCode, rq, consecFails, rotated,
                    acceptedTotp, usedCodes >>

\* The TTL index on expiresAt: the database removes an expired session
\* document at some moment after its expiry.
ttlDelete(s) ==
    /\ sessions[s].exists
    /\ sessions[s].expiresAt < now
    /\ sessions' = [sessions EXCEPT ![s].exists = FALSE]
    /\ resp' = [NoResp EXCEPT !.op = "ttlDelete", !.sid = s, !.at = now]
    /\ UNCHANGED << crypto, mfaPending, now, ticks, users, issuedRefresh, issuedAccess, issuedCodes,
                    nextCode, rq, consecFails, rotated,
                    acceptedTotp, usedCodes >>

----------------------------------------------------------------------------
(* middleware/auth.js *)

idleExpired_inclusive(sess) == now - sess.lastActivity >= sessionIdleTimeout
idleExpired(sess) == now - sess.lastActivity > sessionIdleTimeout

\* What authenticate decides for an access token and a sessionToken cookie
\* (0: no cookie).
AuthOutcome(at, s) ==
    IF at = NoAccess THEN "no_token"
    ELSE IF at \notin issuedAccess THEN "invalid_token"
    ELSE IF ~verifyAccessToken(at) THEN "token_expired"
    ELSE IF s = 0 THEN "no_session_token"
    ELSE IF ~(sessions[s].exists /\ sessions[s].isActive) THEN "no_session"
    ELSE IF idleExpired(sessions[s]) THEN "idle_timeout"
    ELSE "pass"

AuthSessions(at, s) ==
    CASE AuthOutcome(at, s) = "idle_timeout" ->
            [sessions EXCEPT ![s].isActive = FALSE]
      [] AuthOutcome(at, s) = "pass" ->
            [sessions EXCEPT ![s].lastActivity = now]
      [] OTHER -> sessions

AuthResponse(rqst, at, s) ==
    LET o == AuthOutcome(at, s)
        r == [rqst EXCEPT !.access = at, !.sid = s, !.status = HTTP_UNAUTHORIZED,
                 !.preS = IF s \in DOMAIN sessions THEN sessions[s] ELSE NoSession]
    IN CASE o = "no_token" -> [r EXCEPT !.message = "Authentication required"]
         [] o = "invalid_token" -> [r EXCEPT !.message = "Invalid or expired token"]
         [] o = "token_expired" ->
                [r EXCEPT !.message = "Token expired", !.code = "TOKEN_EXPIRED"]
         [] o = "no_session_token" ->
                [r EXCEPT !.message = "Session token missing. Please log in again."]
         [] o = "no_session" ->
                [r EXCEPT !.message = "Invalid or expired session. Please log in again."]
         [] o = "idle_timeout" ->
                [r EXCEPT !.message = "Session expired due to inactivity. Please log in again.",
                          !.code = "SESSION_IDLE_TIMEOUT"]
         [] o = "pass" -> [r EXCEPT !.status = HTTP_OK, !.handlerRan = TRUE]

\* A request to a protected route whose handler changes nothing.
authenticate(at, s) ==
    /\ sessions' = AuthSessions(at, s)
    /\ resp' = AuthResponse(Request("authenticate", at.id), at, s)
    /\ UNCHANGED << crypto, mfaPending, now, ticks, users, issuedRefresh, issuedAccess, issuedCodes,
                    nextCode, rq, consecFails, rotated,
                    acceptedTotp, usedCodes >>

\* POST /api/auth/logout runs authenticate, then logout: the handler unsets
\* the user's refreshTokenHash and refreshTokenExpires, logs, clears the two
\* token cookies of the browser and answers.  It does not touch the session.
logout(at, s, ok) ==
    LET e == at.id
        rqst == AuthResponse(Request("logout", at.id), at, s)
    IN
    /\ sessions' = AuthSessions(at, s)
    /\ IF AuthOutcome(at, s) # "pass"
       THEN /\ resp' = rqst
            /\ UNCHANGED users
       ELSE /\ users' = [users EXCEPT ![e] =
                           [@ EXCEPT !.refreshTokenHash = NoHash,
                                     !.refreshTokenExpires = NULL]]
            /\ resp' = FireLog([rqst EXCEPT !.message = "Logout successful"],
                                logAuthEvent(ok, "logout", TRUE, ""))
    /\ UNCHANGED << crypto, mfaPending, now, ticks, issuedRefresh, issuedAccess, issuedCodes,
                    nextCode, rq, consecFails, rotated, acceptedTotp, usedCodes >>

----------------------------------------------------------------------------
(* models/Session.js, controllers/session.controller.js *)

Protected(op, at, s) == AuthResponse(Request(op, at.id), at, s)

\* A document's save() sends the paths modified since it was read, and
\* nothing else: updateActivity writes lastActivity (the timestamp taken
\* before the save), revoke writes isActive.
updateActivity_wholeDocument(doc, stored, stamp) == [doc EXCEPT !.lastActivity = stamp]
updateActivity(doc, stored, stamp) == [stored EXCEPT !.lastActivity = stamp]

revoke(stored) == [stored EXCEPT !.isActive = FALSE]

Session_revokeAllSessions(S, userId, exceptSessionToken) ==
    [k \in DOMAIN S |->
        IF /\ S[k].exists /\ S[k].userId = userId /\ S[k].isActive
           /\ k # exceptSessionToken
        THEN revoke(S[k]) ELSE S[k]]

\* authenticate, split at its awaits, one request per worker: (1) the token
\* checks and Session.findOne; (2) new Date() and the idle test on the
\* document read, with the save of isActive on a timeout, or the timestamp
\* of updateActivity; (3) the save of updateActivity reaching the database.
InFlight(w) == rq[w].pc \in {"found", "saving"}

authFind(w, at, s) ==
    /\ rq[w].pc = "idle"
    /\ IF AuthOutcome(at, s) \in {"pass", "idle_timeout"}
       THEN /\ rq' = [rq EXCEPT ![w] = [pc |-> "found", access |-> at, sid |-> s,
                                         doc |-> sessions[s], stamp |-> NULL]]
            /\ UNCHANGED resp
       ELSE /\ resp' = AuthResponse(Request("authenticate", at.id), at, s)
            /\ UNCHANGED rq
    /\ UNCHANGED << crypto, mfaPending, now, ticks, users, sessions, issuedRefresh,
                    issuedAccess, issuedCodes, nextCode, consecFails, rotated,
                    acceptedTotp, usedCodes >>

SessionResponse(w) ==
    [Request("authenticate", rq[w].access.id) EXCEPT
        !.access = rq[w].access, !.sid = rq[w].sid, !.preS = rq[w].doc,
        !.status = HTTP_UNAUTHORIZED]

authCheck(w) ==
    LET s == rq[w].sid
    IN
    /\ rq[w].pc = "found"
    /\ IF idleExpired(rq[w].doc)
       THEN /\ sessions' = IF sessions[s].exists
                           THEN [sessions EXCEPT ![s] = revoke(@)] ELSE sessions
            /\ resp' = IF sessions[s].exists
                       THEN [SessionResponse(w) EXCEPT
                                !.message = "Session expired due to inactivity. Please log in again.",
                                !.code = "SESSION_IDLE_TIMEOUT"]
                       ELSE [SessionResponse(w) EXCEPT
                                !.message = "Invalid or expired token"]
            /\ rq' = [rq EXCEPT ![w] = NoRequest]
       ELSE /\ rq' = [rq EXCEPT ![w].pc = "saving", ![w].stamp = now]
            /\ UNCHANGED << sessions, resp >>
    /\ UNCHANGED << crypto, mfaPending, now, ticks, users, issuedRefresh, issuedAccess,
                    issuedCodes, nextCode, consecFails, rotated, acceptedTotp,
                    usedCodes >>

authSave(w) ==
    LET s == rq[w].sid
    IN
    /\ rq[w].pc = "saving"
    /\ IF sessions[s].exists
       THEN /\ sessions' = [sessions EXCEPT ![s] =
                               updateActivity(rq[w].doc, @, rq[w].stamp)]
            /\ resp' = [SessionResponse(w) EXCEPT !.status = HTTP_OK,
                                                  !.handlerRan = TRUE]
       ELSE /\ resp' = [SessionResponse(w) EXCEPT
                           !.message = "Invalid or expired token"]
            /\ UNCHANGED sessions
    /\ rq' = [rq EXCEPT ![w] = NoRequest]
    /\ UNCHANGED << crypto, mfaPending, now, ticks, users, issuedRefresh, issuedAccess,
                    issuedCodes, nextCode, consecFails, rotated, acceptedTotp,
                    usedCodes >>

\* The handlers of /api/sessions, each behind router.use(authenticate);
\* s is the sessionToken cookie, t the :sessionId of the path.
revokeSessionById(at, s, t, ok) ==
    LET S == AuthSessions(at, s)
        rqst == [Protected("revokeSessionById", at, s) EXCEPT !.target = t,
                                                              !.preT = S[t]]
    IN
    /\ IF AuthOutcome(at, s) # "pass"
       THEN /\ resp' = Protected("revokeSessionById", at, s)
            /\ sessions' = S
       ELSE IF ~S[t].exists
       THEN /\ resp' = logAction(ok, "security", "session_revoked",
                           [rqst EXCEPT !.status = HTTP_NOT_FOUND,
                                        !.message = "Session not found"])
            /\ sessions' = S
       ELSE IF S[t].userId # at.id
       THEN /\ resp' = logAction(ok, "security", "session_revoked",
                           [rqst EXCEPT !.status = HTTP_FORBIDDEN,
                                        !.message = "You do not have permission to perform this action"])
            /\ sessions' = S
       ELSE /\ sessions' = [S EXCEPT ![t] = revoke(@)]
            /\ resp' = logAction(ok, "security", "session_revoked",
                           AwaitLog([rqst EXCEPT !.message = "Session revoked successfully"],
                                    logAuthEvent(ok, "session_revoked", TRUE, "Session ID")))
    /\ UNCHANGED << crypto, mfaPending, now, ticks, users, issuedRefresh, issuedAccess,
                    issuedCodes, nextCode, rq, consecFails, rotated, acceptedTotp,
                    usedCodes >>

revokeAllSessions(at, s, ok) ==
    LET S == AuthSessions(at, s)
    IN
    /\ IF AuthOutcome(at, s) # "pass"
       THEN /\ resp' = Protected("revokeAllSessions", at, s)
            /\ sessions' = S
       ELSE /\ sessions' = Session_revokeAllSessions(S, at.id, s)
            /\ resp' = logAction(ok, "security", "all_sessions_revoked",
                           AwaitLog([Protected("revokeAllSessions", at, s) EXCEPT
                                        !.message = "All other sessions revoked successfully"],
                                    logAuthEvent(ok, "all_sessions_revoked", TRUE, "")))
    /\ UNCHANGED << crypto, mfaPending, now, ticks, users, issuedRefresh, issuedAccess,
                    issuedCodes, nextCode, rq, consecFails, rotated, acceptedTotp,
                    usedCodes >>

trustSession(at, s, t, ok) ==
    LET S == AuthSessions(at, s)
        rqst == [Protected("trustSession", at, s) EXCEPT !.target = t,
                                                         !.preT = S[t]]
    IN
    /\ IF AuthOutcome(at, s) # "pass"
       THEN /\ resp' = Protected("trustSession", at, s)
            /\ sessions' = S
       ELSE IF ~S[t].exists
       THEN /\ resp' = logAction(ok, "security", "session_trusted",
                           [rqst EXCEPT !.status = HTTP_NOT_FOUND,
                                        !.message = "Session not found"])
            /\ sessions' = S
       ELSE IF S[t].userId # at.id
       THEN /\ resp' = logAction(ok, "security", "session_trusted",
                           [rqst EXCEPT !.status = HTTP_FORBIDDEN,
                                        !.message = "You do not have permission to perform this action"])
            /\ sessions' = S
       ELSE /\ sessions' = [S EXCEPT ![t].isTrusted = TRUE]
            /\ resp' = logAction(ok, "security", "session_trusted",
                           [rqst EXCEPT !.message = "Session marked as trusted"])
    /\ UNCHANGED << crypto, mfaPending, now, ticks, users, issuedRefresh, issuedAccess,
                    issuedCodes, nextCode, rq, consecFails, rotated, acceptedTotp,
                    usedCodes >>

----------------------------------------------------------------------------
(* services/totp.service.js *)

\* The code an authenticator shows for a secret at a time step; a code is
\* modelled by the pair it is computed from.
Step(t) == t \div totpStep
NoTotp == << 0, 0 >>
getCurrentTOTPToken(secret) == << secret, Step(now) >>

verifyTOTPToken(token, secret) ==
    /\ secret # 0
    /\ token[1] = secret
    /\ token[2] >= Step(now) - totpWindow
    /\ token[2] <= Step(now) + totpWindow

\* generateBackupCodes draws BackupCodeCount random 32-bit codes; the model
\* takes them fresh (never drawn before).
BackupCode(n) == Str("code", "", n)
generateBackupCodes == [i \in 1..BackupCodeCount |-> BackupCode(nextCode + i)]
hashBackupCode(c) == hashPassword(c)

\* index of the first stored hash the code matches, 0 if none (-1 in the source)
verifyBackupCode(c, hashedCodes) ==
    LET hits == {i \in 1..Len(hashedCodes) : comparePassword(c, hashedCodes[i])}
    IN  IF hits = {} THEN 0 ELSE CHOOSE i \in hits : \A j \in hits : i <= j

splice_keepsAll(codes, i) == codes

\* Array.prototype.splice(index, 1)
splice(codes, i) ==
    [k \in 1..(Len(codes) - 1) |-> IF k < i THEN codes[k] ELSE codes[k + 1]]

----------------------------------------------------------------------------
(* controllers/totp.controller.js *)

\* The routes of setupTOTP, verifyAndEnableTOTP, disableTOTP and
\* regenerateBackupCodes run authenticate first; req.user.id is the subject
\* of the access token.

\* secret is the base32 secret speakeasy.generateSecret draws.
setupTOTP(at, s, secret, ok) ==
    LET e == at.id
    IN
    /\ sessions' = AuthSessions(at, s)
    /\ IF AuthOutcome(at, s) # "pass"
       THEN /\ resp' = Protected("setupTOTP", at, s)
            /\ UNCHANGED users
       ELSE /\ users' = [users EXCEPT ![e] =
                           [@ EXCEPT !.totpSecret = secret,
                                     !.totpVerified = FALSE]]
            /\ resp' = logAction(ok, "security", "totp_setup", [Protected("setupTOTP", at, s) EXCEPT
                           !.message = "TOTP secret generated."])
    /\ UNCHANGED << crypto, mfaPending, now, ticks, issuedRefresh, issuedAccess, issuedCodes,
                    nextCode, rq, consecFails, rotated, acceptedTotp, usedCodes >>

verifyAndEnableTOTP(at, s, token, ok) ==
    LET e == at.id
        u == users[e]
        codes == generateBackupCodes
    IN
    /\ nextCode < MaxBatches * BackupCodeCount
    /\ sessions' = AuthSessions(at, s)
    /\ IF AuthOutcome(at, s) # "pass"
       THEN /\ resp' = [Protected("verifyAndEnableTOTP", at, s) EXCEPT !.totp = token]
            /\ UNCHANGED << users, nextCode, issuedCodes >>
       ELSE IF u.totpSecret = 0
       THEN /\ resp' = logAction(ok, "security", "totp_enabled", [Protected("verifyAndEnableTOTP", at, s) EXCEPT
                           !.totp = token, !.status = HTTP_BAD_REQUEST,
                           !.message = "Please setup TOTP first"])
            /\ UNCHANGED << users, nextCode, issuedCodes >>
       ELSE IF ~verifyTOTPToken(token, u.totpSecret)
       THEN /\ resp' = logAction(ok, "security", "totp_enabled", AwaitLog([Protected("verifyAndEnableTOTP", at, s) EXCEPT
                                     !.totp = token, !.status = HTTP_BAD_REQUEST,
                                     !.message = "Invalid TOTP token"],
                                 logAuthEvent(ok, "totp_verification_failed", FALSE,
                                              "invalid_token")))
            /\ UNCHANGED << users, nextCode, issuedCodes >>
       ELSE /\ users' = [users EXCEPT ![e] =
                           [u EXCEPT !.totpEnabled = TRUE, !.totpVerified = TRUE,
                                     !.backupCodes =
                                         [i \in 1..BackupCodeCount |->
                                             hashBackupCode(codes[i])]]]
            /\ nextCode' = nextCode + BackupCodeCount
            /\ issuedCodes' = issuedCodes \cup {codes[i] : i \in 1..BackupCodeCount}
            /\ resp' = logAction(ok, "security", "totp_enabled", AwaitLog([Protected("verifyAndEnableTOTP", at, s) EXCEPT
                                     !.totp = token,
                                     !.message = "TOTP enabled successfully"],
                                 logAuthEvent(ok, "totp_enabled", TRUE, "")))
    /\ UNCHANGED << crypto, mfaPending, now, ticks, issuedRefresh, issuedAccess, rq,
                    consecFails, rotated, acceptedTotp, usedCodes >>

\* The step-up check shared by disableTOTP and regenerateBackupCodes:
\* bcrypt.compare(password, user.password), which throws on a missing hash.
PasswordReproof_skipped(u, p) == "ok"

PasswordReproof(u, p) ==
    IF u.password = NoHash THEN "error"
    ELSE IF comparePassword(p, u.password) THEN "ok"
    ELSE "wrong"

disableTOTP(at, s, p, ok) ==
    LET e == at.id
        u == users[e]
        rqst == [Protected("disableTOTP", at, s) EXCEPT !.password = p]
    IN
    /\ sessions' = AuthSessions(at, s)
    /\ IF AuthOutcome(at, s) # "pass"
       THEN /\ resp' = rqst
            /\ UNCHANGED users
       ELSE IF p = NoStr
       THEN /\ resp' = logAction(ok, "security", "totp_disabled", [rqst EXCEPT !.status = HTTP_BAD_REQUEST,
                                    !.message = "Password is required to disable TOTP"])
            /\ UNCHANGED users
       ELSE IF PasswordReproof(u, p) = "error"
       THEN /\ resp' = logAction(ok, "security", "totp_disabled", [rqst EXCEPT !.status = HTTP_SERVER_ERROR,
                                    !.message = "data and hash arguments required"])
            /\ UNCHANGED users
       ELSE IF PasswordReproof(u, p) = "wrong"
       THEN /\ resp' = logAction(ok, "security", "totp_disabled", [rqst EXCEPT !.status = HTTP_UNAUTHORIZED, !.pwChecked = TRUE,
                                    !.message = "Invalid password"])
            /\ UNCHANGED users
       ELSE /\ users' = [users EXCEPT ![e] =
                           [u EXCEPT !.totpEnabled = FALSE, !.totpSecret = 0,
                                     !.totpVerified = FALSE, !.backupCodes = << >>]]
            /\ resp' = logAction(ok, "security", "totp_disabled", AwaitLog([rqst EXCEPT !.pwChecked = TRUE,
                                     !.message = "TOTP disabled successfully"],
                                 logAuthEvent(ok, "totp_disabled", TRUE, "")))
    /\ UNCHANGED << crypto, mfaPending, now, ticks, issuedRefresh, issuedAccess, issuedCodes,
                    nextCode, rq, consecFails, rotated,
                    acceptedTotp, usedCodes >>

\* user.save() of a document read earlier sends the paths whose value
\* differs from the one read (assigning the value a path already has marks
\* nothing); doc is the document as read, new the document as assigned.
SaveModified(stored, doc, new) ==
    [f \in DOMAIN stored |-> IF new[f] # doc[f] THEN new[f] ELSE stored[f]]

\* A save that sets an array carries the version read, and fails when an
\* array of the stored document was set since; every batch of backup codes
\* is new, so the stored array then differs from the one read.
VersionConflict(stored, doc, new) ==
    new.backupCodes # doc.backupCodes /\ stored.backupCodes # doc.backupCodes

\* disableTOTP, split at its awaits: (1) authenticate, User.findById and
\* bcrypt.compare on the document read; (2) the four assignments and
\* user.save(), the audit call and the answer.
disableTOTPFind(w, at, s, p, ok) ==
    LET e == at.id
        u == users[e]
        rqst == [Protected("disableTOTP", at, s) EXCEPT !.password = p]
    IN
    /\ rq[w].pc = "idle"
    /\ sessions' = AuthSessions(at, s)
    /\ IF AuthOutcome(at, s) # "pass"
       THEN /\ resp' = rqst
            /\ UNCHANGED rq
       ELSE IF p = NoStr
       THEN /\ resp' = logAction(ok, "security", "totp_disabled",
                           [rqst EXCEPT !.status = HTTP_BAD_REQUEST,
                                        !.message = "Password is required to disable TOTP"])
            /\ UNCHANGED rq
       ELSE IF PasswordReproof(u, p) = "error"
       THEN /\ resp' = logAction(ok, "security", "totp_disabled",
                           [rqst EXCEPT !.status = HTTP_SERVER_ERROR,
                                        !.message = "data and hash arguments required"])
            /\ UNCHANGED rq
       ELSE IF PasswordReproof(u, p) = "wrong"
       THEN /\ resp' = logAction(ok, "security", "totp_disabled",
                           [rqst EXCEPT !.status = HTTP_UNAUTHORIZED, !.pwChecked = TRUE,
                                        !.message = "Invalid password"])
            /\ UNCHANGED rq
       ELSE /\ rq' = [rq EXCEPT ![w] = [pc |-> "disable", access |-> at, sid |-> s,
                                         doc |-> u, request |-> rqst]]
            /\ UNCHANGED resp
    /\ UNCHANGED << crypto, mfaPending, now, ticks, users, issuedRefresh, issuedAccess,
                    issuedCodes, nextCode, consecFails, rotated, acceptedTotp,
                    usedCodes >>

disableTOTPSave(w, ok) ==
    LET e == rq[w].access.id
        doc == rq[w].doc
        new == [doc EXCEPT !.totpEnabled = FALSE, !.totpSecret = 0,
                           !.totpVerified = FALSE, !.backupCodes = << >>]
        rqst == [rq[w].request EXCEPT !.at = now, !.pwChecked = TRUE]
    IN
    /\ rq[w].pc = "disable"
    /\ IF VersionConflict(users[e], doc, new)
       THEN /\ resp' = logAction(ok, "security", "totp_disabled",
                           [rqst EXCEPT !.status = HTTP_SERVER_ERROR,
                                        !.message = "No matching document found"])
            /\ UNCHANGED users
       ELSE /\ users' = [users EXCEPT ![e] = SaveModified(@, doc, new)]
            /\ resp' = logAction(ok, "security", "totp_disabled",
                           AwaitLog([rqst EXCEPT !.message = "TOTP disabled successfully"],
                                    logAuthEvent(ok, "totp_disabled", TRUE, "")))
    /\ rq' = [rq EXCEPT ![w] = NoRequest]
    /\ UNCHANGED << crypto, mfaPending, now, ticks, sessions, issuedRefresh,
                    issuedAccess, issuedCodes, nextCode, consecFails, rotated,
                    acceptedTotp, usedCodes >>

regenerateBackupCodes(at, s, p, ok) ==
    LET e == at.id
        u == users[e]
        codes == generateBackupCodes
        rqst == [Protected("regenerateBackupCodes", at, s) EXCEPT !.password = p]
    IN
    /\ nextCode < MaxBatches * BackupCodeCount
    /\ sessions' = AuthSessions(at, s)
    /\ IF AuthOutcome(at, s) # "pass"
       THEN /\ resp' = rqst
            /\ UNCHANGED << users, nextCode, issuedCodes >>
       ELSE IF p = NoStr
       THEN /\ resp' = logAction(ok, "security", "backup_codes_regenerated", [rqst EXCEPT !.status = HTTP_BAD_REQUEST,
                                    !.message = "Password is required"])
            /\ UNCHANGED << users, nextCode, issuedCodes >>
       ELSE IF ~u.totpEnabled
       THEN /\ resp' = logAction(ok, "security", "backup_codes_regenerated", [rqst EXCEPT !.status = HTTP_BAD_REQUEST,
                                    !.message = "TOTP is not enabled"])
            /\ UNCHANGED << users, nextCode, issuedCodes >>
       ELSE IF PasswordReproof(u, p) = "error"
       THEN /\ resp' = logAction(ok, "security", "backup_codes_regenerated", [rqst EXCEPT !.status = HTTP_SERVER_ERROR,
                                    !.message = "data and hash arguments required"])
            /\ UNCHANGED << users, nextCode, issuedCodes >>
       ELSE IF PasswordReproof(u, p) = "wrong"
       THEN /\ resp' = logAction(ok, "security", "backup_codes_regenerated", [rqst EXCEPT !.status = HTTP_UNAUTHORIZED, !.pwChecked = TRUE,
                                    !.message = "Invalid password"])
            /\ UNCHANGED << users, nextCode, issuedCodes >>
       ELSE /\ users' = [users EXCEPT ![e].backupCodes =
                           [i \in 1..BackupCodeCount |-> hashBackupCode(codes[i])]]
            /\ nextCode' = nextCode + BackupCodeCount
            /\ issuedCodes' = issuedCodes \cup {codes[i] : i \in 1..BackupCodeCount}
            /\ resp' = logAction(ok, "security", "backup_codes_regenerated", AwaitLog([rqst EXCEPT !.pwChecked = TRUE,
                                     !.message = "Backup codes regenerated successfully"],
                                 logAuthEvent(ok, "backup_codes_regenerated", TRUE, "")))
    /\ UNCHANGED << crypto, mfaPending, now, ticks, issuedRefresh, issuedAccess, rq,
                    consecFails, rotated, acceptedTotp, usedCodes >>

\* verifyTOTPLogin is a public route.  With useBackupCode the token is a
\* backup code c, otherwise a TOTP code t.
verifyTOTPLogin(e, useBackupCode, c, t, ok) ==
    LET u == users[e]
        idx == verifyBackupCode(c, u.backupCodes)
        isValid == IF useBackupCode THEN idx # 0
                                    ELSE verifyTOTPToken(t, u.totpSecret)
        rt == generateRefreshToken(e)
        rqst == [Request("verifyTOTPLogin", e) EXCEPT
                    !.useBackupCode = useBackupCode, !.token = c, !.totp = t,
                    !.mfaPending = mfaPending[e],
                    !.replay = IF useBackupCode THEN c \in usedCodes
                                                ELSE t \in acceptedTotp[e]]
    IN
    /\ IF ~u.exists
       THEN /\ resp' = [rqst EXCEPT !.status = HTTP_UNAUTHORIZED,
                                    !.message = "Invalid email or password"]
            /\ UNCHANGED << users, issuedRefresh, issuedAccess, acceptedTotp, usedCodes,
                            mfaPending >>
       ELSE IF ~u.totpEnabled
       THEN /\ resp' = [rqst EXCEPT !.status = HTTP_BAD_REQUEST,
                           !.message = "TOTP is not enabled for this account"]
            /\ UNCHANGED << users, issuedRefresh, issuedAccess, acceptedTotp, usedCodes,
                            mfaPending >>
       ELSE IF ~isValid
       THEN /\ resp' = AwaitLog([rqst EXCEPT !.status = HTTP_UNAUTHORIZED,
                                     !.reason = "invalid_token",
                                     !.message = IF useBackupCode
                                                 THEN "Invalid backup code"
                                                 ELSE "Invalid TOTP token"],
                                 logAuthEvent(ok, "totp_login_failed", FALSE,
                                              "invalid_token"))
            /\ UNCHANGED << users, issuedRefresh, issuedAccess, acceptedTotp, usedCodes,
                            mfaPending >>
       ELSE /\ users' = [users EXCEPT ![e] =
                           [u EXCEPT !.backupCodes =
                                         IF useBackupCode THEN splice(@, idx) ELSE @,
                                     !.refreshTokenHash = hashPassword(rt),
                                     !.refreshTokenExpires = now + refreshTokenExpiry]]
            /\ issuedRefresh' = issuedRefresh \cup {rt}
            /\ issuedAccess' = issuedAccess \cup {generateAccessToken(e)}
            /\ mfaPending' = [mfaPending EXCEPT ![e] = FALSE]
            /\ usedCodes' = IF useBackupCode THEN usedCodes \cup {c} ELSE usedCodes
            /\ acceptedTotp' = IF useBackupCode THEN acceptedTotp
                               ELSE [acceptedTotp EXCEPT ![e] = @ \cup {t}]
            /\ resp' = AwaitLog([rqst EXCEPT !.status = HTTP_OK, !.tokens = TRUE,
                                     !.newToken = rt, !.access = generateAccessToken(e),
                                     !.message = "Login successful"],
                                 logAuthEvent(ok, "totp_login", TRUE, ""))
    /\ UNCHANGED << crypto, now, ticks, sessions, issuedCodes, nextCode, rq,
                    consecFails, rotated >>

----------------------------------------------------------------------------
(* Password management: models/User.js, middleware/auth.js,
   controllers/user.controller.js, controllers/auth.controller.js *)

isPasswordInHistory_never(u, p) == FALSE

\* Compares the new password with the current hash only.
isPasswordInHistory(u, p) ==
    IF u.password = NoHash THEN FALSE ELSE comparePassword(p, u.password)

\* userSchema declares no method addToPasswordHistory (and no path
\* passwordHistory): the call user.addToPasswordHistory(...) throws a
\* TypeError before anything is assigned.
addToPasswordHistory(u, h) == [threw |-> TRUE, user |-> u]

isPasswordExpired_inclusive(u) ==
    u.passwordExpiresAt # NULL /\ u.passwordExpiresAt <= now

isPasswordExpired(u) == u.passwordExpiresAt # NULL /\ u.passwordExpiresAt < now

\* Math.ceil((expiresAt - now) / one day), 0 when that is not positive
getDaysUntilPasswordExpiry(u) ==
    IF u.passwordExpiresAt = NULL THEN NULL
    ELSE LET diffDays == (u.passwordExpiresAt - now + SecondsPerDay - 1)
                             \div SecondsPerDay
         IN  IF diffDays > 0 THEN diffDays ELSE 0

\* checkPasswordExpiry, run after authenticate has set req.user
checkPasswordExpiry(path, u) ==
    IF path = "/change-password" THEN [blocked |-> FALSE, warning |-> NULL]
    ELSE IF ~u.exists THEN [blocked |-> FALSE, warning |-> NULL]
    ELSE IF isPasswordExpired(u) THEN [blocked |-> TRUE, warning |-> NULL]
    ELSE [blocked |-> FALSE,
          warning |-> IF /\ getDaysUntilPasswordExpiry(u) # NULL
                         /\ getDaysUntilPasswordExpiry(u) <= expiryWarningDays
                      THEN getDaysUntilPasswordExpiry(u) ELSE NULL]

\* authenticate followed by checkPasswordExpiry, as the user, order and admin
\* routers mount them (the session router mounts authenticate alone)
Guarded(op, at, s, path) ==
    LET r == [AuthResponse(Request(op, at.id), at, s) EXCEPT !.path = path]
        c == checkPasswordExpiry(path, users[at.id])
    IN  IF AuthOutcome(at, s) # "pass" THEN r
        ELSE IF c.blocked
        THEN [r EXCEPT !.status = HTTP_FORBIDDEN, !.code = "PASSWORD_EXPIRED",
                       !.handlerRan = FALSE,
                       !.message = "Your password has expired. Please change your password to continue."]
        ELSE [r EXCEPT !.warning = c.warning]

\* GET /profile: a guarded route whose handler changes nothing
getProfile(at, s) ==
    /\ sessions' = AuthSessions(at, s)
    /\ resp' = Guarded("getProfile", at, s, "/profile")
    /\ UNCHANGED << crypto, mfaPending, now, ticks, users, issuedRefresh, issuedAccess, issuedCodes,
                    nextCode, rq, consecFails, rotated, acceptedTotp, usedCodes >>

NewPasswordFields(u, p) ==
    [u EXCEPT !.password = hashPassword(p),
              !.passwordChangedAt = now,
              !.passwordExpiresAt = now + passwordExpiry,
              !.refreshTokenHash = NoHash,
              !.refreshTokenExpires = NULL]

changePassword(at, s, currentPassword, newPassword) ==
    LET e == at.id
        u == users[e]
        rqst == [Guarded("changePassword", at, s, "/change-password") EXCEPT
                    !.password = currentPassword, !.newPassword = newPassword]
        hist == addToPasswordHistory(u, u.password)
    IN
    /\ sessions' = AuthSessions(at, s)
    /\ IF ~rqst.handlerRan
       THEN /\ resp' = rqst
            /\ UNCHANGED users
       ELSE IF u.password = NoHash
       THEN /\ resp' = [rqst EXCEPT !.status = HTTP_SERVER_ERROR,
                                    !.message = "Error comparing passwords"]
            /\ UNCHANGED users
       ELSE IF ~comparePassword(currentPassword, u.password)
       THEN /\ resp' = [rqst EXCEPT !.status = HTTP_UNAUTHORIZED, !.pwChecked = TRUE,
                                    !.message = "Current password is incorrect"]
            /\ UNCHANGED users
       ELSE IF isPasswordInHistory(u, newPassword)
       THEN /\ resp' = [rqst EXCEPT !.status = HTTP_BAD_REQUEST, !.pwChecked = TRUE,
                                    !.message = "Cannot reuse your last passwords"]
            /\ UNCHANGED users
       ELSE IF hist.threw
       THEN /\ resp' = [rqst EXCEPT !.status = HTTP_SERVER_ERROR, !.pwChecked = TRUE,
                           !.message = "user.addToPasswordHistory is not a function"]
            /\ UNCHANGED users
       ELSE /\ users' = [users EXCEPT ![e] = NewPasswordFields(hist.user, newPassword)]
            /\ resp' = [rqst EXCEPT !.pwChecked = TRUE,
                                    !.message = "Password changed successfully"]
    /\ UNCHANGED << crypto, mfaPending, now, ticks, issuedRefresh, issuedAccess, issuedCodes,
                    nextCode, rq, consecFails, rotated, acceptedTotp, usedCodes >>

\* token is the random token generateRandomToken draws
forgotPassword(e, token) ==
    /\ IF ~users[e].exists
       THEN UNCHANGED users
       ELSE users' = [users EXCEPT ![e] =
                         [@ EXCEPT !.passwordResetToken = token,
                                   !.passwordResetExpires = now + resetTokenExpiry]]
    /\ resp' = [Request("forgotPassword", e) EXCEPT !.status = HTTP_OK,
                   !.pin = token,
                   !.message = "Password reset email sent"]
    /\ UNCHANGED << crypto, mfaPending, now, ticks, sessions, issuedRefresh, issuedAccess,
                    issuedCodes, nextCode, rq, consecFails, rotated,
                    acceptedTotp, usedCodes >>

\* User.findOne({passwordResetToken: token, passwordResetExpires: {$gt: now}})
FindByResetToken(token) ==
    {e \in Emails : /\ users[e].exists
                    /\ users[e].passwordResetToken = token
                    /\ users[e].passwordResetExpires # NULL
                    /\ users[e].passwordResetExpires > now}

resetPassword(token, password) ==
    LET found == FindByResetToken(token)
        e == IF found = {} THEN "" ELSE CHOOSE x \in found : TRUE
        u == IF found = {} THEN NoUser ELSE users[e]
        rqst == [Request("resetPassword", e) EXCEPT !.pin = token,
                    !.newPassword = password, !.handlerRan = found # {}]
        hist == IF u.password # NoHash
                THEN addToPasswordHistory(u, u.password)
                ELSE [threw |-> FALSE, user |-> u]
    IN
    /\ IF found = {}
       THEN /\ resp' = [rqst EXCEPT !.status = HTTP_BAD_REQUEST,
                                    !.message = "Invalid or expired reset token"]
            /\ UNCHANGED users
       ELSE IF isPasswordInHistory(u, password)
       THEN /\ resp' = [rqst EXCEPT !.status = HTTP_BAD_REQUEST,
                                    !.message = "Cannot reuse your last passwords"]
            /\ UNCHANGED users
       ELSE IF hist.threw
       THEN /\ resp' = [rqst EXCEPT !.status = HTTP_SERVER_ERROR,
                           !.message = "user.addToPasswordHistory is not a function"]
            /\ UNCHANGED users
       ELSE /\ users' = [users EXCEPT ![e] =
                           [NewPasswordFields(hist.user, password) EXCEPT
                               !.passwordResetToken = 0,
                               !.passwordResetExpires = NULL]]
            /\ resp' = [rqst EXCEPT !.status = HTTP_OK,
                                    !.message = "Password reset successful"]
    /\ UNCHANGED << crypto, mfaPending, now, ticks, sessions, issuedRefresh, issuedAccess,
                    issuedCodes, nextCode, rq, consecFails, rotated,
                    acceptedTotp, usedCodes >>

----------------------------------------------------------------------------
(* utils/encryption.js *)

\* A JavaScript string is a sequence of UTF-16 code units.  The plaintexts
\* tried are made of "a", ":" and the two halves of U+1F600.
CodeUnits == {97, 58, 55357, 56832}
Plaintexts == UNION {[1..n -> CodeUnits] : n \in 0..MaxLen}

isHighSurrogate(c) == c >= 55296 /\ c <= 56319
isLowSurrogate(c) == c >= 56320 /\ c <= 57343
ReplacementChar == 65533

\* The code points the "utf8" encoder of Buffer reads from a string: a
\* surrogate pair is one code point, an unpaired surrogate becomes U+FFFD.
RECURSIVE codePoints(_)
codePoints(s) ==
    IF s = << >> THEN << >>
    ELSE IF isHighSurrogate(s[1]) /\ Len(s) >= 2 /\ isLowSurrogate(s[2])
    THEN << 65536 + (s[1] - 55296) * 1024 + (s[2] - 56320) >>
             \o codePoints(SubSeq(s, 3, Len(s)))
    ELSE IF isHighSurrogate(s[1]) \/ isLowSurrogate(s[1])
    THEN << ReplacementChar >> \o codePoints(Tail(s))
    ELSE << s[1] >> \o codePoints(Tail(s))

utf8Bytes(cp) ==
    IF cp < 128 THEN << cp >>
    ELSE IF cp < 2048 THEN << 192 + (cp \div 64), 128 + (cp % 64) >>
    ELSE IF cp < 65536
    THEN << 224 + (cp \div 4096), 128 + ((cp \div 64) % 64), 128 + (cp % 64) >>
    ELSE << 240 + (cp \div 262144), 128 + ((cp \div 4096) % 64),
            128 + ((cp \div 64) % 64), 128 + (cp % 64) >>

RECURSIVE concatBytes(_)
concatBytes(cps) ==
    IF cps = << >> THEN << >>
    ELSE utf8Bytes(cps[1]) \o concatBytes(Tail(cps))

\* cipher.update(plaintext, "utf8", ...)
utf8Encode(s) == concatBytes(codePoints(s))

codeUnitsOf(cp) ==
    IF cp < 65536 THEN << cp >>
    ELSE << 55296 + ((cp - 65536) \div 1024), 56320 + ((cp - 65536) % 1024) >>

\* decipher.update(..., "utf8"), on bytes that are well-formed UTF-8
RECURSIVE utf8Decode(_)
utf8Decode(b) ==
    IF b = << >> THEN << >>
    ELSE IF b[1] < 128
    THEN codeUnitsOf(b[1]) \o utf8Decode(Tail(b))
    ELSE IF b[1] < 224
    THEN codeUnitsOf((b[1] - 192) * 64 + (b[2] - 128))
             \o utf8Decode(SubSeq(b, 3, Len(b)))
    ELSE IF b[1] < 240
    THEN codeUnitsOf((b[1] - 224) * 4096 + (b[2] - 128) * 64 + (b[3] - 128))
             \o utf8Decode(SubSeq(b, 4, Len(b)))
    ELSE codeUnitsOf((b[1] - 240) * 262144 + (b[2] - 128) * 4096
                         + (b[3] - 128) * 64 + (b[4] - 128))
             \o utf8Decode(SubSeq(b, 5, Len(b)))

\* Hex text is a sequence of digits 0..15; Colon is the separator of the
\* envelope.
Colon == 16

RECURSIVE toHex(_)
toHex(b) ==
    IF b = << >> THEN << >>
    ELSE << b[1] \div 16, b[1] % 16 >> \o toHex(Tail(b))

RECURSIVE fromHex(_)
fromHex(h) ==
    IF Len(h) < 2 THEN << >>
    ELSE << h[1] * 16 + h[2] >> \o fromHex(SubSeq(h, 3, Len(h)))

\* String.prototype.split(":")
RECURSIVE split(_)
split(str) ==
    IF \A i \in 1..Len(str) : str[i] # Colon THEN << str >>
    ELSE LET i == CHOOSE k \in 1..Len(str) :
                      str[k] = Colon /\ \A j \in 1..(k - 1) : str[j] # Colon
         IN  << SubSeq(str, 1, i - 1) >> \o split(SubSeq(str, i + 1, Len(str)))

\* process.env.ENCRYPTION_KEY, and the values crypto.randomBytes can give
\* for the salt and for the IV (one byte each here).
MasterKey == 42
Salts == {1, 2}
Ivs == {1, 2}

\* Stand-ins for PBKDF2, the AES-CTR keystream and the GCM tag, with the
\* same dependences: the key on master key and salt, byte i of the keystream
\* on key, IV and i, the tag on key, IV and ciphertext.
deriveKey(masterKey, salt) == (masterKey * 31 + salt * 17) % 256
Keystream(key, iv, i) == (key * 7 + iv * 13 + i * 29 + 1) % 256

RECURSIVE SumBytes(_)
SumBytes(b) == IF b = << >> THEN 0 ELSE b[1] + SumBytes(Tail(b))
AuthTag(key, iv, enc) == (key + iv * 3 + SumBytes(enc) * 5 + Len(enc)) % 256

Encipher(key, iv, b) == [i \in 1..Len(b) |-> (b[i] + Keystream(key, iv, i)) % 256]
Decipher(key, iv, c) ==
    [i \in 1..Len(c) |-> (c[i] + 256 - Keystream(key, iv, i)) % 256]

Envelope_ivFirst(salt, iv, enc, tag) ==
    toHex(<< iv >>) \o << Colon >> \o toHex(<< salt >>) \o << Colon >>
        \o toHex(enc) \o << Colon >> \o toHex(<< tag >>)

\* `${salt}:${iv}:${encrypted}:${tag}`, all in hex
Envelope(salt, iv, enc, tag) ==
    toHex(<< salt >>) \o << Colon >> \o toHex(<< iv >>) \o << Colon >>
        \o toHex(enc) \o << Colon >> \o toHex(<< tag >>)

\* salt and iv are the two draws of crypto.randomBytes.
encryptField(plaintext, salt, iv) ==
    IF plaintext = << >> THEN NullField
    ELSE LET key == deriveKey(MasterKey, salt)
             enc == Encipher(key, iv, utf8Encode(plaintext))
         IN  StringField(Envelope(salt, iv, enc, AuthTag(key, iv, enc)))

decryptField(encryptedData) ==
    IF encryptedData.kind # "string" \/ encryptedData.value = << >>
    THEN NullField
    ELSE LET parts == split(encryptedData.value)
         IN  IF Len(parts) # 4
             THEN Threw("Decryption failed: Invalid encrypted data format")
             ELSE LET salt == fromHex(parts[1])[1]
                      iv == fromHex(parts[2])[1]
                      enc == fromHex(parts[3])
                      tag == fromHex(parts[4])[1]
                      key == deriveKey(MasterKey, salt)
                  IN  IF AuthTag(key, iv, enc) # tag
                      THEN Threw("Decryption failed: Unsupported state or unable to authenticate data")
                      ELSE StringField(utf8Decode(Decipher(key, iv, enc)))

\* String(value).split(":").length === 4, on a field value
isEncrypted(field) ==
    field.kind = "string" /\ field.value # << >> /\ Len(split(field.value)) = 4

\* encryptField and decryptField under an environment whose ENCRYPTION_KEY
\* is masterKey, or is not set.
NoKey == 0

encryptFieldEnv(masterKey, field, salt, iv) ==
    IF field.kind # "string" \/ field.value = << >> THEN NullField
    ELSE IF masterKey = NoKey
    THEN Threw("Encryption failed: ENCRYPTION_KEY not set in environment variables")
    ELSE encryptField(field.value, salt, iv)

decryptFieldEnv(masterKey, field) ==
    IF field.kind # "string" \/ field.value = << >> THEN NullField
    ELSE IF masterKey = NoKey
    THEN Threw("Decryption failed: ENCRYPTION_KEY not set in environment variables")
    ELSE decryptField(field)

NoCrypto ==
    [pc |-> "idle", plaintext |-> << >>, drawn |-> {},
     first |-> NullField, second |-> NullField, decrypted |-> NullField]

\* One call of encryptField on the plaintext: the first, then the second.
\* randomBytes does not give the same salt and IV twice.
encrypt(salt, iv) ==
    /\ crypto.pc \in {"input", "once"}
    /\ << salt, iv >> \notin crypto.drawn
    /\ crypto' = IF crypto.pc = "input"
                 THEN [crypto EXCEPT !.pc = "once",
                          !.drawn = @ \cup {<< salt, iv >>},
                          !.first = encryptField(crypto.plaintext, salt, iv)]
                 ELSE [crypto EXCEPT !.pc = "twice",
                          !.drawn = @ \cup {<< salt, iv >>},
                          !.second = encryptField(crypto.plaintext, salt, iv)]
    /\ UNCHANGED << mfaPending, now, ticks, users, sessions, issuedRefresh, issuedAccess,
                    issuedCodes, nextCode, rq, consecFails, rotated,
                    acceptedTotp, usedCodes, resp >>

\* decryptField on the envelope of the first call.
decrypt ==
    /\ crypto.pc = "twice"
    /\ crypto' = [crypto EXCEPT !.pc = "decrypted",
                     !.decrypted = decryptField(crypto.first)]
    /\ UNCHANGED << mfaPending, now, ticks, users, sessions, issuedRefresh, issuedAccess,
                    issuedCodes, nextCode, rq, consecFails, rotated,
                    acceptedTotp, usedCodes, resp >>

----------------------------------------------------------------------------
(* models/User.js hooks on phone, controllers/user.controller.js *)

\* The phone numbers validate(updateProfileSchema) lets through:
\* /^\+?[\d\s\-()]+$/, over the characters "+" and "5".
PhoneUnits == {43, 53}
PhoneValid(p) ==
    LET rest == IF p[1] = 43 THEN Tail(p) ELSE p
    IN  rest # << >> /\ \A i \in 1..Len(rest) : rest[i] = 53
Phones == {p \in UNION {[1..n -> PhoneUnits] : n \in 1..MaxLen} : PhoneValid(p)}
Undefined == [kind |-> "undefined", value |-> << >>]

\* post("findOne"): an envelope is replaced in the loaded document by its
\* plaintext, or by null when decryptField throws.
postFindOne(masterKey, stored) ==
    IF isEncrypted(stored)
    THEN LET d == decryptFieldEnv(masterKey, stored)
         IN  IF d.kind \in {"string", "null"} THEN d ELSE NullField
    ELSE stored

\* pre("save"): the value of phone the save persists.  An error of
\* encryptField is caught and logged, and the save goes on.
preSave(masterKey, phone, isModified, salt, iv) ==
    IF isModified /\ phone.kind = "string" /\ phone.value # << >> /\ ~isEncrypted(phone)
    THEN LET r == encryptFieldEnv(masterKey, phone, salt, iv)
         IN  IF r.kind \in {"string", "null"} THEN r ELSE phone
    ELSE phone

\* PUT /api/users/profile behind authenticate: phone is the phone of the
\* body (Undefined: none), salt and iv the draws of encryptField.
updateProfile(at, s, phone, salt, iv) ==
    LET e == at.id
        stored == users[e].phone
        loaded == postFindOne(crypto.key, stored)
        assigned == IF phone = Undefined THEN loaded ELSE phone
        isModified == loaded # stored \/ assigned # loaded
        saved == preSave(crypto.key, assigned, isModified, salt, iv)
        rqst == Guarded("updateProfile", at, s, "/profile")
    IN
    /\ sessions' = AuthSessions(at, s)
    /\ IF ~rqst.handlerRan
       THEN /\ resp' = rqst
            /\ UNCHANGED users
       ELSE /\ users' = [users EXCEPT ![e].phone = saved]
            /\ resp' = logAction(TRUE, "user", "update_profile",
                           [rqst EXCEPT !.token = assigned,
                                        !.message = "Profile updated successfully"])
    /\ UNCHANGED << crypto, mfaPending, now, ticks, issuedRefresh, issuedAccess,
                    issuedCodes, nextCode, rq, consecFails, rotated, acceptedTotp,
                    usedCodes >>

----------------------------------------------------------------------------
(* Specifications *)

Init ==
    /\ now = 0
    /\ ticks = 0
    /\ users = [e \in Emails |-> NoUser]
    /\ sessions = [s \in 1..MaxSessions |-> NoSession]
    /\ issuedRefresh = {}
    /\ issuedAccess = {}
    /\ issuedCodes = {}
    /\ nextCode = 0
    /\ rq = [w \in Workers |-> NoRequest]
    /\ consecFails = [e \in Emails |-> 0]
    /\ rotated = {}
    /\ acceptedTotp = [e \in Emails |-> {}]
    /\ usedCodes = {}
    /\ crypto = NoCrypto
    /\ mfaPending = [e \in Emails |-> FALSE]
    /\ resp = NoResp

\* Login and lockout
LoginSteps == {1, lockDuration}

NextLogin ==
    \/ \E d \in LoginSteps : Tick(d, MaxTicks)
    \/ \E e \in Registrable, pin \in {111111} : register(e, Str("pw", "", 1), pin, TRUE)
    \/ \E e \in Emails, pin \in Pins : verifyEmail(e, pin, TRUE)
    \/ \E e \in Emails, p \in Passwords : login(e, p, TRUE)
    \/ \E e \in Emails : suspendUser(e)
    \/ \E e \in Emails : unsuspendUser(e)

SpecLogin == Init /\ [][NextLogin]_vars

\* Refresh-token rotation
RefreshSteps == {1, refreshTokenExpiry}

NextRefresh ==
    \/ \E d \in RefreshSteps : Tick(d, MaxRefreshTicks)
    \/ \E e \in Registrable, pin \in {111111} : register(e, Str("pw", "", 1), pin, TRUE)
    \/ \E e \in Registrable, pin \in {111111} : verifyEmail(e, pin, TRUE)
    \/ \E e \in Registrable : login(e, Str("pw", "", 1), TRUE)
    \/ \E w \in Workers, T \in issuedRefresh \cup {NoStr, GarbageToken} :
           refreshRead(w, T)
    \/ \E w \in Workers : refreshCompare(w)
    \/ \E w \in Workers : refreshSave(w)

SpecRefresh == Init /\ [][NextRefresh]_vars

\* Sessions.  The run starts either on an empty database or on a deployment
\* in which a Google user has kept one session alive, by authenticated
\* requests and token refreshes, until one second before its absolute expiry.
AgedUser ==
    [NoUser EXCEPT !.exists = TRUE, !.googleLinked = TRUE,
                   !.authProvider = "google", !.isEmailVerified = TRUE,
                   !.passwordChangedAt = 0, !.passwordExpiresAt = passwordExpiry,
                   !.refreshTokenHash = hashPassword(Str("rt", "real@x.com", 0)),
                   !.refreshTokenExpires = 2 * refreshTokenExpiry - 1]

InitAged ==
    /\ now = refreshTokenExpiry - 1
    /\ ticks = 0
    /\ users = [e \in Emails |-> IF e = "real@x.com" THEN AgedUser ELSE NoUser]
    /\ sessions = [s \in 1..MaxSessions |->
                     IF s = 1
                     THEN [ exists |-> TRUE, userId |-> "real@x.com",
                            refreshTokenHash |-> hashPassword(Str("rt", "real@x.com", 0)),
                            isActive |-> TRUE, lastActivity |-> refreshTokenExpiry - 1,
                            expiresAt |-> refreshTokenExpiry, isTrusted |-> FALSE ]
                     ELSE NoSession]
    /\ issuedRefresh = {Str("rt", "real@x.com", refreshTokenExpiry - 1)}
    /\ issuedAccess = {[id |-> "real@x.com", iat |-> refreshTokenExpiry - 1]}
    /\ issuedCodes = {}
    /\ nextCode = 0
    /\ rq = [w \in Workers |-> NoRequest]
    /\ consecFails = [e \in Emails |-> 0]
    /\ rotated = {}
    /\ acceptedTotp = [e \in Emails |-> {}]
    /\ usedCodes = {}
    /\ crypto = NoCrypto
    /\ mfaPending = [e \in Emails |-> FALSE]
    /\ resp = NoResp

InitSession == Init \/ InitAged

SessionSteps == {1, sessionIdleTimeout}

NextSession ==
    \/ \E d \in SessionSteps : Tick(d, MaxSessionTicks)
    \/ \E e \in Registrable, v \in BOOLEAN, s \in 1..MaxSessions :
           googleAuth(e, v, s, TRUE)
    \/ \E at \in issuedAccess \cup {NoAccess}, s \in 0..MaxSessions :
           authenticate(at, s)
    \/ \E s \in 1..MaxSessions, rt \in issuedRefresh : verifySession(s, rt)
    \/ \E s \in 1..MaxSessions : ttlDelete(s)

SpecSession == InitSession /\ [][NextSession]_vars

\* TOTP multi-factor authentication
TotpSteps == {totpStep}
\* the accessToken cookie a browser holds: the one set last
CookieJar == {at \in issuedAccess : \A o \in issuedAccess : o.iat <= at.iat}
TotpInputs(e) ==
    {getCurrentTOTPToken(k) : k \in Secrets} \cup acceptedTotp[e] \cup {NoTotp}
\* the first code shown, a middle code of every batch shown, and a wrong one
CodeInputs ==
    {c \in issuedCodes : c.v = 1 \/ c.v % BackupCodeCount = 5} \cup {BackupCode(0)}

NextTotp ==
    \/ \E d \in TotpSteps : Tick(d, MaxTotpTicks)
    \/ \E e \in Registrable, pin \in {111111} : register(e, Str("pw", "", 1), pin, TRUE)
    \/ \E e \in Registrable, s \in TotpSessionTokens : googleAuth(e, TRUE, s, TRUE)
    \/ \E at \in CookieJar, s \in TotpSessionTokens, k \in Secrets :
           setupTOTP(at, s, k, TRUE)
    \/ \E at \in CookieJar, s \in TotpSessionTokens :
           \E t \in TotpInputs(at.id) : verifyAndEnableTOTP(at, s, t, TRUE)
    \/ \E at \in CookieJar, s \in TotpSessionTokens, p \in Passwords \cup {NoStr} :
           disableTOTP(at, s, p, TRUE)
    \/ \E at \in CookieJar, s \in TotpSessionTokens, p \in Passwords \cup {NoStr} :
           regenerateBackupCodes(at, s, p, TRUE)
    \/ \E e \in Registrable, c \in CodeInputs :
           verifyTOTPLogin(e, TRUE, c, NoTotp, TRUE)
    \/ \E e \in Registrable :
           \E t \in TotpInputs(e) : verifyTOTPLogin(e, FALSE, BackupCode(0), t, TRUE)

SpecTotp == Init /\ [][NextTotp]_vars

\* Password change, reset and expiry
PasswordSteps == {1, passwordExpiry - expiryWarningDays * SecondsPerDay - 1,
                  passwordExpiry}
ResetTokens == {7}

NextPassword ==
    \/ \E d \in PasswordSteps : Tick(d, MaxPasswordTicks)
    \/ \E e \in Registrable, pin \in {111111} : register(e, Str("pw", "", 1), pin, TRUE)
    \/ \E e \in Registrable, s \in TotpSessionTokens : googleAuth(e, TRUE, s, TRUE)
    \/ \E at \in CookieJar, s \in TotpSessionTokens : getProfile(at, s)
    \/ \E at \in CookieJar, s \in TotpSessionTokens, c \in Passwords, n \in Passwords :
           changePassword(at, s, c, n)
    \/ \E e \in Emails, t \in ResetTokens : forgotPassword(e, t)
    \/ \E t \in ResetTokens \cup {0}, p \in Passwords : resetPassword(t, p)

SpecPassword == Init /\ [][NextPassword]_vars

\* Audit trail.  The specifications above let every insert into the audit
\* collection succeed; here each request that logs may find it failing.
NextAudit ==
    \/ \E e \in Registrable, pin \in {111111}, ok \in AuditWrites :
           register(e, Str("pw", "", 1), pin, ok)
    \/ \E e \in Registrable, pin \in {111111}, ok \in AuditWrites :
           verifyEmail(e, pin, ok)
    \/ \E e \in Emails, ok \in AuditWrites : login(e, Str("pw", "", 1), ok)
    \/ \E e \in Registrable, s \in TotpSessionTokens, ok \in AuditWrites :
           googleAuth(e, TRUE, s, ok)
    \/ \E at \in CookieJar, s \in TotpSessionTokens, ok \in AuditWrites :
           logout(at, s, ok)
    \/ \E at \in CookieJar, s \in TotpSessionTokens, k \in Secrets,
          ok \in AuditWrites :
           setupTOTP(at, s, k, ok)
    \/ \E at \in CookieJar, s \in TotpSessionTokens, ok \in AuditWrites :
           \E t \in TotpInputs(at.id) : verifyAndEnableTOTP(at, s, t, ok)
    \/ \E at \in CookieJar, s \in TotpSessionTokens, p \in Passwords,
          ok \in AuditWrites :
           disableTOTP(at, s, p, ok)
    \/ \E e \in Registrable, c \in CodeInputs, ok \in AuditWrites :
           verifyTOTPLogin(e, TRUE, c, NoTotp, ok)
    \/ \E e \in Registrable, ok \in AuditWrites :
           \E t \in TotpInputs(e) : verifyTOTPLogin(e, FALSE, BackupCode(0), t, ok)

SpecAudit == Init /\ [][NextAudit]_vars

\* Field encryption: any plaintext, encrypted twice, the first envelope
\* decrypted.
InitCrypto ==
    /\ now = 0
    /\ ticks = 0
    /\ users = [e \in Emails |-> NoUser]
    /\ sessions = [s \in 1..MaxSessions |-> NoSession]
    /\ issuedRefresh = {}
    /\ issuedAccess = {}
    /\ issuedCodes = {}
    /\ nextCode = 0
    /\ rq = [w \in Workers |-> NoRequest]
    /\ consecFails = [e \in Emails |-> 0]
    /\ rotated = {}
    /\ acceptedTotp = [e \in Emails |-> {}]
    /\ usedCodes = {}
    /\ crypto \in {[NoCrypto EXCEPT !.pc = "input", !.plaintext = s] : s \in Plaintexts}
    /\ mfaPending = [e \in Emails |-> FALSE]
    /\ resp = NoResp

NextCrypto ==
    \/ \E salt \in Salts, iv \in Ivs : encrypt(salt, iv)
    \/ decrypt

SpecCrypto == InitCrypto /\ [][NextCrypto]_vars

(* Requests on sessions, interleaved.  In SpecOps one authenticate request
   is in flight while sessions are created, revoked and trusted; in
   SpecTouch two authenticate requests are in flight at once.  The clock
   moves by the idle timeout only between requests. *)

OpsSteps == {1, sessionIdleTimeout + 1}

\* the session tokens in play
OpsSessions == {1, 2}

\* the worker whose authenticate request is split at its awaits
OpsWorkers == {1}

\* the access token cookie of each account's browser
OpsTokens ==
    {at \in issuedAccess :
        \A o \in issuedAccess : o.id = at.id => o.iat <= at.iat}

NextOps ==
    \/ \E d \in OpsSteps :
           /\ d > 1 => \A w \in Workers : ~InFlight(w)
           /\ Tick(d, MaxOpsTicks)
    \/ \E e \in Registrable, s \in OpsSessions : googleAuth(e, TRUE, s, TRUE)
    \/ \E w \in OpsWorkers, at \in OpsTokens, s \in OpsSessions : authFind(w, at, s)
    \/ \E w \in OpsWorkers : authCheck(w)
    \/ \E w \in OpsWorkers : authSave(w)
    \/ \E at \in OpsTokens, s \in OpsSessions, t \in OpsSessions :
           revokeSessionById(at, s, t, TRUE)
    \/ \E at \in OpsTokens, s \in OpsSessions : revokeAllSessions(at, s, TRUE)
    \/ \E at \in OpsTokens, s \in OpsSessions, t \in OpsSessions :
           trustSession(at, s, t, TRUE)

SpecOps == Init /\ [][NextOps]_vars

NextTouch ==
    \/ Tick(1, MaxOpsTicks)
    \/ \E e \in Registrable, s \in OpsSessions : googleAuth(e, TRUE, s, TRUE)
    \/ \E w \in Workers, at \in OpsTokens, s \in OpsSessions : authFind(w, at, s)
    \/ \E w \in Workers : authCheck(w)
    \/ \E w \in Workers : authSave(w)

SpecTouch == Init /\ [][NextTouch]_vars

(* The TOTP handlers of one account, with a disableTOTP request in flight
   while others run. *)

NextMfa ==
    \/ \E e \in Registrable, pin \in {111111} : register(e, Str("pw", "", 1), pin, TRUE)
    \/ \E e \in Registrable, s \in TotpSessionTokens : googleAuth(e, TRUE, s, TRUE)
    \/ \E at \in CookieJar, s \in TotpSessionTokens, k \in Secrets :
           setupTOTP(at, s, k, TRUE)
    \/ \E at \in CookieJar, s \in TotpSessionTokens :
           \E t \in TotpInputs(at.id) : verifyAndEnableTOTP(at, s, t, TRUE)
    \/ \E w \in OpsWorkers, at \in CookieJar, s \in TotpSessionTokens, p \in Passwords :
           disableTOTPFind(w, at, s, p, TRUE)
    \/ \E w \in OpsWorkers : disableTOTPSave(w, TRUE)

SpecMfa == Init /\ [][NextMfa]_vars

(* Two accounts, each with its own sessions and access tokens. *)

NextCross ==
    \/ Tick(1, MaxOpsTicks)
    \/ \E e \in Emails, s \in OpsSessions : googleAuth(e, TRUE, s, TRUE)
    \/ \E at \in issuedAccess \cup {NoAccess}, s \in {0} \cup OpsSessions :
           authenticate(at, s)

SpecCross == Init /\ [][NextCross]_vars

(* The four operations that issue tokens, on an account that an admin
   suspends and that wrong passwords lock. *)

NextBlocked ==
    \/ \E e \in Registrable, pin \in {111111} : register(e, Str("pw", "", 1), pin, TRUE)
    \/ \E e \in Registrable, pin \in {111111} : verifyEmail(e, pin, TRUE)
    \/ \E e \in Registrable, p \in Passwords : login(e, p, TRUE)
    \/ \E e \in Registrable : suspendUser(e)
    \/ \E e \in Registrable, s \in TotpSessionTokens : googleAuth(e, TRUE, s, TRUE)
    \/ \E w \in OpsWorkers, T \in issuedRefresh : refreshRead(w, T)
    \/ \E w \in OpsWorkers : refreshCompare(w)
    \/ \E w \in OpsWorkers : refreshSave(w)
    \/ \E at \in CookieJar, s \in TotpSessionTokens, k \in Secrets :
           setupTOTP(at, s, k, TRUE)
    \/ \E at \in CookieJar, s \in TotpSessionTokens :
           \E t \in TotpInputs(at.id) : verifyAndEnableTOTP(at, s, t, TRUE)
    \/ \E e \in Registrable :
           \E t \in TotpInputs(e) : verifyTOTPLogin(e, FALSE, BackupCode(0), t, TRUE)

SpecBlocked == Init /\ [][NextBlocked]_vars

(* setupTOTP called again on an account, with a second secret to draw. *)

RekeySecrets == {1, 2}

RekeyInputs == {getCurrentTOTPToken(k) : k \in RekeySecrets}

NextRekey ==
    \/ \E e \in Registrable, s \in TotpSessionTokens : googleAuth(e, TRUE, s, TRUE)
    \/ \E at \in CookieJar, s \in TotpSessionTokens, k \in RekeySecrets :
           setupTOTP(at, s, k, TRUE)
    \/ \E at \in CookieJar, s \in TotpSessionTokens, t \in RekeyInputs :
           verifyAndEnableTOTP(at, s, t, TRUE)
    \/ \E e \in Registrable, t \in RekeyInputs :
           verifyTOTPLogin(e, FALSE, BackupCode(0), t, TRUE)

SpecRekey == Init /\ [][NextRekey]_vars

(* Profile updates of one account, in a process whose ENCRYPTION_KEY is
   set or is not. *)

InitPhone ==
    /\ now = 0
    /\ ticks = 0
    /\ users = [e \in Emails |-> NoUser]
    /\ sessions = [s \in 1..MaxSessions |-> NoSession]
    /\ issuedRefresh = {}
    /\ issuedAccess = {}
    /\ issuedCodes = {}
    /\ nextCode = 0
    /\ rq = [w \in Workers |-> NoRequest]
    /\ consecFails = [e \in Emails |-> 0]
    /\ rotated = {}
    /\ acceptedTotp = [e \in Emails |-> {}]
    /\ usedCodes = {}
    /\ crypto \in {[pc |-> "env", key |-> k] : k \in {MasterKey, NoKey}}
    /\ mfaPending = [e \in Emails |-> FALSE]
    /\ resp = NoResp

NextPhone ==
    \/ \E e \in Registrable, s \in TotpSessionTokens : googleAuth(e, TRUE, s, TRUE)
    \/ \E at \in CookieJar, s \in TotpSessionTokens,
          phone \in {StringField(p) : p \in Phones} \cup {Undefined},
          salt \in Salts, iv \in Ivs :
           updateProfile(at, s, phone, salt, iv)

SpecPhone == InitPhone /\ [][NextPhone]_vars

----------------------------------------------------------------------------
(* Properties *)

\* C1: after exactly maxFailedAttempts consecutive login calls that failed the
\* password check, a login call made while accountLockedUntil is in the
\* future is rejected as account_locked: no tokens, password not evaluated.
C1_LockedAfterThreshold ==
    ( /\ resp.op = "login"
      /\ resp.preFails = maxFailedAttempts
      /\ resp.pre.accountLockedUntil # NULL
      /\ resp.pre.accountLockedUntil > resp.at )
    => ( /\ resp.reason = "account_locked"
         /\ ~resp.tokens
         /\ ~resp.pwChecked )

\* C8: for a locked identity, once lockDuration has elapsed since the lock
\* was set, a login with the correct password is not rejected as locked and,
\* on an account the suspension check lets through, passes the password
\* check, succeeds and leaves failedLoginAttempts = 0 and
\* accountLockedUntil = null.
C8_UnlockAfterDuration ==
    ( /\ resp.op = "login"
      /\ resp.pre.exists
      /\ resp.pre.accountLockedUntil # NULL
      /\ resp.at >= resp.pre.accountLockedUntil
      /\ resp.pre.password = hashPassword(resp.password) )
    => ( /\ resp.reason # "account_locked"
         /\ ~resp.pre.isSuspended
               => ( /\ resp.pwChecked
                    /\ resp.status = HTTP_OK
                    /\ users[resp.email].failedLoginAttempts = 0
                    /\ users[resp.email].accountLockedUntil = NULL ) )

C8_Witness ==
    /\ resp.op = "login"
    /\ resp.pre.failedLoginAttempts = maxFailedAttempts
    /\ resp.pre.accountLockedUntil # NULL
    /\ resp.at >= resp.pre.accountLockedUntil
    /\ resp.pre.password = hashPassword(resp.password)
    /\ resp.tokens
    /\ users[resp.email].failedLoginAttempts = 0

C2_ExactlyOneRefreshWins ==
    \A w1, w2 \in Workers :
        ( /\ w1 # w2
          /\ rq[w1].pc = "done" /\ rq[w2].pc = "done"
          /\ rq[w1].token = rq[w2].token
          /\ rq[w1].overlap /\ rq[w2].overlap
          /\ rq[w1].result = "ok" )
        => rq[w2].result = "invalid"

\* C3: once a refresh has succeeded with token T, every later
\* refreshAccessToken call that presents T fails.
C3_SupersededTokenRejected ==
    (resp.op = "refresh" /\ resp.reused) => resp.status # HTTP_OK

\* C4: on a request with a valid access token and an active session,
\* authenticate compares now - lastActivity with the 15-minute idle timeout:
\* beyond it the request is rejected with SESSION_IDLE_TIMEOUT, the session
\* is saved inactive and the handler does not run; otherwise the handler
\* runs and lastActivity becomes now.
C4_IdleTimeout ==
    ( /\ resp.op = "authenticate"
      /\ resp.access \in issuedAccess
      /\ resp.at < resp.access.iat + accessTokenExpiry
      /\ resp.preS.exists /\ resp.preS.isActive )
    => IF resp.at - resp.preS.lastActivity > 900
       THEN /\ resp.status = HTTP_UNAUTHORIZED
            /\ resp.code = "SESSION_IDLE_TIMEOUT"
            /\ ~resp.handlerRan
            /\ ~sessions[resp.sid].isActive
            /\ sessions[resp.sid].lastActivity = resp.preS.lastActivity
       ELSE /\ resp.handlerRan
            /\ sessions[resp.sid].isActive
            /\ sessions[resp.sid].lastActivity = resp.at

C4_WitnessTimeout ==
    /\ resp.op = "authenticate"
    /\ resp.preS.isActive
    /\ resp.at - resp.preS.lastActivity = 901
    /\ resp.code = "SESSION_IDLE_TIMEOUT"
    /\ ~sessions[resp.sid].isActive

C4_WitnessProceed ==
    /\ resp.op = "authenticate"
    /\ resp.preS.isActive
    /\ resp.at - resp.preS.lastActivity = 900
    /\ resp.handlerRan
    /\ sessions[resp.sid].lastActivity = resp.at

\* C5: no request is authenticated (authenticate runs the handler, or
\* verifySession returns true) through a session that is inactive or whose
\* absolute expiry expiresAt is in the past.
C5_NoAuthThroughDeadSession ==
    (resp.op \in {"authenticate", "verifySession"} /\ resp.handlerRan)
    => (resp.preS.exists /\ resp.preS.isActive /\ ~(resp.preS.expiresAt < resp.at))

\* C6: a backup code is accepted by at most one verifyTOTPLogin call: the
\* call that presents a stored code succeeds and removes exactly its hash,
\* a call that presents a code used before (or never issued) fails and
\* leaves the stored codes unchanged.
C6_BackupCodeSingleUse ==
    ( /\ resp.op = "verifyTOTPLogin"
      /\ resp.useBackupCode
      /\ resp.pre.exists /\ resp.pre.totpEnabled )
    => LET h == hashBackupCode(resp.token)
           before == resp.pre.backupCodes
           after == users[resp.email].backupCodes
       IN  /\ resp.replay => resp.status # HTTP_OK
           /\ IF \E i \in 1..Len(before) : before[i] = h
              THEN /\ resp.status = HTTP_OK
                   /\ after = SelectSeq(before, LAMBDA x : x # h)
                   /\ Len(after) = Len(before) - 1
              ELSE /\ resp.status = HTTP_UNAUTHORIZED
                   /\ after = before

C6_Witness ==
    /\ resp.op = "verifyTOTPLogin"
    /\ resp.useBackupCode
    /\ resp.replay
    /\ resp.token \in issuedCodes
    /\ resp.status = HTTP_UNAUTHORIZED
    /\ Len(users[resp.email].backupCodes) = BackupCodeCount - 1

\* C7: a TOTP code verifyTOTPLogin has accepted for an identity is not
\* accepted a second time for that identity.
C7_NoTotpReplay ==
    (resp.op = "verifyTOTPLogin" /\ ~resp.useBackupCode /\ resp.replay)
    => resp.status # HTTP_OK

MfaState(u) == << u.totpEnabled, u.totpSecret, u.totpVerified, u.backupCodes >>

\* C10 as stated: with a wrong password disableTOTP and
\* regenerateBackupCodes are rejected as unauthorized and leave totpEnabled,
\* totpSecret, totpVerified and backupCodes unchanged.
C10_WrongPasswordUnauthorized ==
    ( /\ resp.op \in {"disableTOTP", "regenerateBackupCodes"}
      /\ resp.handlerRan
      /\ resp.password # NoStr
      /\ resp.pre.password # hashPassword(resp.password) )
    => ( /\ resp.status = HTTP_UNAUTHORIZED
         /\ MfaState(users[resp.email]) = MfaState(resp.pre) )

\* C10: disableTOTP and regenerateBackupCodes change the MFA state only
\* after the password is re-proved.  With a wrong password the MFA state is
\* unchanged and the call is rejected: regenerateBackupCodes on an account
\* without TOTP answers 400 before it looks at the password, an account
\* without a password hash gets 500 from bcrypt.compare, every other call
\* 401.  With the right password disableTOTP turns TOTP off, clears the
\* secret and empties the backup codes.
C10_PasswordReproof ==
    ( /\ resp.op \in {"disableTOTP", "regenerateBackupCodes"}
      /\ resp.handlerRan
      /\ resp.password # NoStr )
    => IF resp.pre.password # hashPassword(resp.password)
       THEN /\ MfaState(users[resp.email]) = MfaState(resp.pre)
            /\ resp.status =
                  IF resp.op = "regenerateBackupCodes" /\ ~resp.pre.totpEnabled
                  THEN HTTP_BAD_REQUEST
                  ELSE IF resp.pre.password = NoHash THEN HTTP_SERVER_ERROR
                  ELSE HTTP_UNAUTHORIZED
       ELSE resp.op = "disableTOTP"
            => /\ resp.status = HTTP_OK
               /\ MfaState(users[resp.email]) = << FALSE, 0, FALSE, << >> >>

C10_Witness ==
    /\ resp.op = "disableTOTP"
    /\ resp.handlerRan
    /\ resp.pre.totpEnabled
    /\ resp.pre.password # NoHash
    /\ resp.pre.password # hashPassword(resp.password)
    /\ resp.status = HTTP_UNAUTHORIZED
    /\ users[resp.email].totpEnabled
    /\ Len(users[resp.email].backupCodes) = BackupCodeCount

C10_WitnessDisabled ==
    /\ resp.op = "disableTOTP"
    /\ resp.pre.totpEnabled
    /\ resp.pre.password = hashPassword(resp.password)
    /\ resp.status = HTTP_OK
    /\ ~users[resp.email].totpEnabled

\* C11: no operation issues access or refresh tokens for an account whose
\* email is not verified: an operation that issues tokens leaves
\* isEmailVerified = true (verifyEmail sets it, every other operation finds
\* it set).
C11_NoTokensUnverified ==
    (resp.tokens /\ resp.email \in Emails)
    => users[resp.email].isEmailVerified

\* C12: verifyEmail with the PIN generated at registration succeeds while
\* now is before the PIN's expiry, marks the account verified and yields
\* credentials that pass authenticate and can be refreshed; after the expiry
\* it fails with "Invalid or expired PIN" and leaves the account unverified.
C12_VerifyEmailYieldsSession ==
    ( /\ resp.op = "verifyEmail"
      /\ resp.pre.exists
      /\ resp.pre.emailVerificationExpires # NULL
      /\ resp.pin = resp.pre.emailVerificationToken )
    => IF resp.at < resp.pre.emailVerificationExpires
       THEN /\ resp.status = HTTP_OK
            /\ users[resp.email].isEmailVerified
            /\ resp.tokens
            /\ AuthOutcome(resp.access, resp.sid) = "pass"
            /\ comparePassword(resp.newToken, users[resp.email].refreshTokenHash)
       ELSE /\ resp.status = HTTP_BAD_REQUEST
            /\ resp.message = "Invalid or expired PIN"
            /\ ~resp.tokens
            /\ ~users[resp.email].isEmailVerified

\* The part of C12 about the PIN and its expiry alone.
C12_PinExpiry ==
    ( /\ resp.op = "verifyEmail"
      /\ resp.pre.exists
      /\ resp.pre.emailVerificationExpires # NULL
      /\ resp.pin = resp.pre.emailVerificationToken )
    => IF resp.at < resp.pre.emailVerificationExpires
       THEN /\ resp.status = HTTP_OK
            /\ users[resp.email].isEmailVerified
       ELSE /\ resp.status = HTTP_BAD_REQUEST
            /\ resp.message = "Invalid or expired PIN"
            /\ ~users[resp.email].isEmailVerified

C12_WitnessExpired ==
    /\ resp.op = "verifyEmail"
    /\ resp.pin = resp.pre.emailVerificationToken
    /\ resp.pre.emailVerificationExpires # NULL
    /\ resp.at > resp.pre.emailVerificationExpires
    /\ resp.status = HTTP_BAD_REQUEST

\* The new password matches the current hash or an entry of the history.
MatchesCurrentOrHistory(u, p) ==
    \/ u.password # NoHash /\ comparePassword(p, u.password)
    \/ \E i \in 1..Len(u.passwordHistory) : comparePassword(p, u.passwordHistory[i])

\* The request reached the handler's check of the new password:
\* changePassword with the correct current password, resetPassword with a
\* valid unexpired token.
ReachedNewPasswordCheck ==
    \/ /\ resp.op = "changePassword"
       /\ resp.handlerRan
       /\ comparePassword(resp.password, resp.pre.password)
    \/ /\ resp.op = "resetPassword"
       /\ resp.handlerRan

C13_WitnessReset ==
    /\ resp.op = "resetPassword"
    /\ resp.handlerRan
    /\ comparePassword(resp.newPassword, resp.pre.password)
    /\ resp.status = HTTP_BAD_REQUEST

\* C14: changePassword (correct current password) and resetPassword (valid
\* unexpired token) with a new password that is neither the current one nor
\* in the history succeed; afterwards the previous hash is the newest entry
\* of the history, passwordChangedAt and passwordExpiresAt are updated and
\* the stored refresh-token hash is cleared.
C14_PasswordChangeCompletes ==
    (ReachedNewPasswordCheck /\ ~MatchesCurrentOrHistory(resp.pre, resp.newPassword))
    => LET u == users[resp.email]
       IN  /\ resp.status = HTTP_OK
           /\ u.password = hashPassword(resp.newPassword)
           /\ resp.pre.password # NoHash
                 => ( /\ Len(u.passwordHistory) >= 1
                      /\ u.passwordHistory[1] = resp.pre.password )
           /\ u.passwordChangedAt = resp.at
           /\ u.passwordExpiresAt = resp.at + passwordExpiry
           /\ u.refreshTokenHash = NoHash

\* The request recorded in resp passed authenticate.
AuthPassed ==
    /\ resp.access \in issuedAccess
    /\ resp.at < resp.access.iat + accessTokenExpiry
    /\ resp.preS.exists /\ resp.preS.isActive
    /\ resp.at - resp.preS.lastActivity <= sessionIdleTimeout

C19_WitnessWarning ==
    /\ resp.op = "getProfile"
    /\ resp.handlerRan
    /\ resp.warning = expiryWarningDays

C19_WitnessNoWarning ==
    /\ resp.op = "getProfile"
    /\ resp.handlerRan
    /\ resp.warning = NULL
    /\ resp.pre.passwordExpiresAt - resp.at = expiryWarningDays * SecondsPerDay + 1

C19_WitnessChangeRoute ==
    /\ resp.op = "changePassword"
    /\ resp.handlerRan
    /\ resp.pre.passwordExpiresAt # NULL
    /\ resp.pre.passwordExpiresAt < resp.at


----------------------------------------------------------------------------
(* Login attempts and audit events *)

LoginOps == {"login", "googleAuth", "verifyTOTPLogin"}
FailureReasons ==
    {"invalid_credentials", "account_locked", "account_suspended",
     "email_not_verified", "invalid_2fa_code"}

\* C15: every login attempt, local (login, verifyTOTPLogin) or federated
\* (googleAuth), whatever its outcome, writes exactly one LoginAttempt and at
\* least one audit event, and a failing one writes one of the specific
\* failure reasons.
C15_OneAttemptPerLogin ==
    resp.op \in LoginOps =>
        /\ Len(resp.attempts) = 1
        /\ Len(resp.audit) >= 1
        /\ ~resp.tokens => resp.attempts[1].failureReason \in FailureReasons

\* The part of C15 that the local password login keeps: each of its five
\* rejections and its token-issuing success write one LoginAttempt and one
\* audit event.
C15_PasswordLoginRecorded ==
    (resp.op = "login" /\ resp.status \notin {HTTP_SERVER_ERROR}
                       /\ resp.code # "requiresTOTP") =>
        /\ Len(resp.attempts) = 1
        /\ Len(resp.audit) = 1
        /\ resp.attempts[1].success = resp.tokens
        /\ ~resp.tokens => resp.attempts[1].failureReason = resp.reason
                           /\ resp.reason \in FailureReasons

C15_WitnessLogin ==
    /\ resp.op = "login"
    /\ resp.reason = "account_locked"
    /\ Len(resp.attempts) = 1

\* C16: the step a handler takes is the same whether the insert into the
\* audit collection succeeds or fails: the response, the users and the
\* sessions after the request do not depend on it.
C16_AuditFailureHarmless ==
    [][ /\ \A e \in Registrable, pin \in {111111} :
              /\ register(e, Str("pw", "", 1), pin, FALSE)
                     <=> register(e, Str("pw", "", 1), pin, TRUE)
              /\ verifyEmail(e, pin, FALSE) <=> verifyEmail(e, pin, TRUE)
        /\ \A e \in Emails :
              login(e, Str("pw", "", 1), FALSE) <=> login(e, Str("pw", "", 1), TRUE)
        /\ \A e \in Registrable, s \in TotpSessionTokens :
              googleAuth(e, TRUE, s, FALSE) <=> googleAuth(e, TRUE, s, TRUE)
        /\ \A at \in CookieJar, s \in TotpSessionTokens :
              logout(at, s, FALSE) <=> logout(at, s, TRUE)
        /\ \A at \in CookieJar, s \in TotpSessionTokens, k \in Secrets :
              setupTOTP(at, s, k, FALSE) <=> setupTOTP(at, s, k, TRUE)
        /\ \A at \in CookieJar, s \in TotpSessionTokens :
              \A t \in TotpInputs(at.id) :
                  verifyAndEnableTOTP(at, s, t, FALSE)
                      <=> verifyAndEnableTOTP(at, s, t, TRUE)
        /\ \A at \in CookieJar, s \in TotpSessionTokens, p \in Passwords :
              disableTOTP(at, s, p, FALSE) <=> disableTOTP(at, s, p, TRUE)
        /\ \A e \in Registrable, c \in CodeInputs :
              verifyTOTPLogin(e, TRUE, c, NoTotp, FALSE)
                  <=> verifyTOTPLogin(e, TRUE, c, NoTotp, TRUE)
        /\ \A e \in Registrable :
              \A t \in TotpInputs(e) :
                  verifyTOTPLogin(e, FALSE, BackupCode(0), t, FALSE)
                      <=> verifyTOTPLogin(e, FALSE, BackupCode(0), t, TRUE)
      ]_vars

\* A TOTP login has gone through, its audit call awaited before the answer.
C16_Witness ==
    /\ resp.op = "verifyTOTPLogin"
    /\ resp.tokens
    /\ Len(resp.audit) = 1
    /\ resp.audit[1].action = "totp_login"

\* A rejected TOTP login, its audit call awaited before the 401.
C16_WitnessFailure ==
    /\ resp.op = "verifyTOTPLogin"
    /\ resp.status = HTTP_UNAUTHORIZED
    /\ Len(resp.audit) = 1
    /\ resp.audit[1].action = "totp_login_failed"

----------------------------------------------------------------------------
(* Logout *)

\* What refreshAccessToken answers to a refresh token, given the stored hash.
RefreshAccepted(T) ==
    /\ verifyRefreshToken(T)
    /\ users[T.id].exists
    /\ users[T.id].refreshTokenHash # NoHash
    /\ users[T.id].refreshTokenExpires >= now
    /\ comparePassword(T, users[T.id].refreshTokenHash)

\* C17: once logout has completed, the session the request used is revoked
\* (isActive = FALSE) and the stored refresh-token hash is cleared, so that
\* authenticate with that session token fails and so does a refresh with a
\* refresh token issued before.
C17_LogoutRevokesSession ==
    (resp.op = "logout" /\ resp.handlerRan) =>
        /\ ~sessions[resp.sid].isActive
        /\ users[resp.email].refreshTokenHash = NoHash
        /\ AuthOutcome(resp.access, resp.sid) # "pass"
        /\ \A T \in issuedRefresh : T.id = resp.email => ~RefreshAccepted(T)

\* The half of C17 that logout keeps: the refresh-token hash is cleared and
\* no refresh token issued before is accepted.
C17_LogoutClearsRefreshHash ==
    (resp.op = "logout" /\ resp.handlerRan) =>
        /\ users[resp.email].refreshTokenHash = NoHash
        /\ users[resp.email].refreshTokenExpires = NULL
        /\ \A T \in issuedRefresh : T.id = resp.email => ~RefreshAccepted(T)

C17_Witness ==
    /\ resp.op = "logout"
    /\ resp.handlerRan
    /\ resp.pre.refreshTokenHash # NoHash
    /\ \E T \in issuedRefresh : T.id = resp.email

----------------------------------------------------------------------------
(* Sessions of logins *)

CompletedLogin ==
    /\ resp.op \in {"login", "verifyTOTPLogin", "verifyEmail", "googleAuth"}
    /\ resp.tokens

\* The session a login leaves for the credentials it has just issued.
SessionOfLogin(s) ==
    /\ sessions[s].exists
    /\ sessions[s].isActive
    /\ sessions[s].userId = resp.email
    /\ sessions[s].lastActivity = resp.at
    /\ comparePassword(resp.newToken, sessions[s].refreshTokenHash)

\* C18: every login that completes (password login, TOTP login, the
\* auto-login of verifyEmail, Google login) creates exactly one active
\* session with lastActivity = now, bound to the hash of the refresh token it
\* issued, so that the credentials it issued pass authenticate.
C18_LoginCreatesSession ==
    CompletedLogin =>
        /\ resp.sid # 0
        /\ SessionOfLogin(resp.sid)
        /\ Cardinality({s \in DOMAIN sessions : SessionOfLogin(s)}) = 1
        /\ now = resp.at => AuthOutcome(resp.access, resp.sid) = "pass"

\* What holds of the one login that creates a session, googleAuth.
C18_GoogleLoginCreatesSession ==
    (CompletedLogin /\ resp.op = "googleAuth") =>
        /\ resp.sid # 0
        /\ SessionOfLogin(resp.sid)
        /\ now = resp.at => AuthOutcome(resp.access, resp.sid) = "pass"

C18_WitnessGoogle ==
    /\ CompletedLogin
    /\ now = resp.at
    /\ resp.op = "googleAuth"
    /\ resp.pre.exists

----------------------------------------------------------------------------
(* Field encryption *)

\* A string no code unit of which is an unpaired surrogate.
RECURSIVE WellFormed(_)
WellFormed(s) ==
    IF s = << >> THEN TRUE
    ELSE IF isHighSurrogate(s[1])
    THEN Len(s) >= 2 /\ isLowSurrogate(s[2]) /\ WellFormed(SubSeq(s, 3, Len(s)))
    ELSE ~isLowSurrogate(s[1]) /\ WellFormed(Tail(s))

\* C20 as stated: for every plaintext string s, decryptField(encryptField(s))
\* is s, and two encryptField calls on the same s return different envelopes.
C20_RoundTripEveryString ==
    crypto.pc = "decrypted" =>
        /\ crypto.decrypted = StringField(crypto.plaintext)
        /\ crypto.first # crypto.second

\* C20, amended: for every non-empty plaintext string s without unpaired
\* surrogates, decryptField(encryptField(s)) is s, and two encryptField calls
\* on the same s return different envelopes.
C20_RoundTrip ==
    (crypto.pc = "decrypted" /\ crypto.plaintext # << >>
                             /\ WellFormed(crypto.plaintext)) =>
        /\ crypto.decrypted = StringField(crypto.plaintext)
        /\ crypto.first # crypto.second

\* A plaintext with ":" and a surrogate pair has gone through the round trip.
C20_Witness ==
    /\ crypto.pc = "decrypted"
    /\ crypto.plaintext = << 58, 55357, 56832 >>
    /\ crypto.first.kind = "string"
    /\ crypto.decrypted = StringField(crypto.plaintext)

\* An unpaired surrogate comes back as U+FFFD.
C20_WitnessSurrogate ==
    /\ crypto.pc = "decrypted"
    /\ crypto.plaintext = << 55357 >>
    /\ crypto.decrypted = StringField(<< ReplacementChar >>)

\* The empty string comes back as null, both times without an envelope.
C20_WitnessEmpty ==
    /\ crypto.pc = "decrypted"
    /\ crypto.plaintext = << >>
    /\ crypto.first = NullField
    /\ crypto.second = NullField
    /\ crypto.decrypted = NullField

----------------------------------------------------------------------------
(* Order of the login checks *)

LockedAt(u, t) == u.accountLockedUntil # NULL /\ u.accountLockedUntil > t

\* C21: within one login attempt the checks run in the order identity
\* exists, lockout, suspension, email verification, password, and the first
\* failing one gives the recorded failure reason and the response: a locked
\* and suspended account is answered as locked.
C21_CheckOrder ==
    (resp.op = "login" /\ resp.status # HTTP_SERVER_ERROR) =>
        LET u == resp.pre
        IN  IF ~u.exists
            THEN resp.reason = "invalid_credentials"
                 /\ resp.status = HTTP_UNAUTHORIZED
            ELSE IF LockedAt(u, resp.at)
            THEN resp.reason = "account_locked"
                 /\ resp.status = HTTP_UNAUTHORIZED
            ELSE IF u.isSuspended
            THEN resp.reason = "account_suspended"
                 /\ resp.status = HTTP_FORBIDDEN
            ELSE IF ~u.isEmailVerified
            THEN resp.reason = "email_not_verified"
                 /\ resp.status = HTTP_FORBIDDEN
            ELSE IF ~comparePassword(resp.password, u.password)
            THEN resp.reason = "invalid_credentials"
                 /\ resp.status = HTTP_UNAUTHORIZED
            ELSE resp.status = HTTP_OK

\* The order login has: identity exists, suspension, lockout, email
\* verification, password.
C21_CodeOrder ==
    (resp.op = "login" /\ resp.status # HTTP_SERVER_ERROR) =>
        LET u == resp.pre
        IN  IF ~u.exists
            THEN resp.reason = "invalid_credentials"
            ELSE IF u.isSuspended
            THEN resp.reason = "account_suspended"
            ELSE IF LockedAt(u, resp.at)
            THEN resp.reason = "account_locked"
            ELSE IF ~u.isEmailVerified
            THEN resp.reason = "email_not_verified"
            ELSE IF ~comparePassword(resp.password, u.password)
            THEN resp.reason = "invalid_credentials"
            ELSE resp.status = HTTP_OK

C21_WitnessLockedSuspended ==
    /\ resp.op = "login"
    /\ LockedAt(resp.pre, resp.at)
    /\ resp.pre.isSuspended
    /\ resp.reason = "account_suspended"

(* The MFA challenge of a login *)

\* C22: for an identity with TOTP enabled, verifyTOTPLogin issues tokens
\* only in a login attempt whose password check succeeded before the
\* challenge: no tokens without a preceding successful password check of
\* the same attempt.
C22_TotpLoginNeedsPasswordCheck ==
    (resp.op = "verifyTOTPLogin" /\ resp.tokens) => resp.mfaPending

\* The two ways verifyTOTPLogin is reached: after login answered
\* requiresTOTP, and with no login call at all.
C22_WitnessAfterPassword ==
    resp.op = "verifyTOTPLogin" /\ resp.tokens /\ resp.mfaPending

C22_WitnessNoPassword ==
    resp.op = "verifyTOTPLogin" /\ resp.tokens /\ ~resp.mfaPending

(* Sessions under interleaved requests *)

SessionChecks == {"authenticate", "revokeSessionById", "revokeAllSessions",
                  "trustSession"}

\* A check of a session token that found the session revoked is refused.
RevokedFails ==
    (resp.op \in SessionChecks /\ resp.sid # 0 /\ resp.preS.exists
         /\ ~resp.preS.isActive) =>
        resp.status = HTTP_UNAUTHORIZED /\ ~resp.handlerRan

\* Revoking a session that was revoked already leaves it as it was.
RevokeIdempotent ==
    (resp.op = "revokeSessionById" /\ resp.status = HTTP_OK
         /\ ~resp.preT.isActive) =>
        sessions[resp.target] = resp.preT

\* No step makes a session active that was created and is inactive.
InactiveIsTerminal ==
    \A s \in 1..MaxSessions :
        (sessions[s].userId # "" /\ ~sessions[s].isActive) => ~sessions'[s].isActive

\* C23: session inactivity is terminal and revocation is idempotent: under
\* every interleaving of create, authenticate, revoke, revokeAll and trust
\* requests an inactive session is never active again, revoking a revoked
\* session leaves it unchanged, and every check of the session token made
\* after a revoke fails.
C23_InactivityTerminal ==
    [](RevokedFails /\ RevokeIdempotent) /\ [][InactiveIsTerminal]_vars

\* An authenticate request read the session, the session was revoked, and
\* then the request's save of lastActivity arrived: the session stays
\* inactive.
C23_WitnessLateSave ==
    /\ resp.op = "authenticate" /\ resp.status = HTTP_OK
    /\ resp.preS.isActive /\ ~sessions[resp.sid].isActive
    /\ sessions[resp.sid].lastActivity = resp.at

C23_WitnessRevokedTwice ==
    /\ resp.op = "revokeSessionById" /\ resp.status = HTTP_OK
    /\ ~resp.preT.isActive

C23_WitnessCheckAfterRevoke ==
    /\ resp.op = "authenticate" /\ resp.preS.exists /\ ~resp.preS.isActive
    /\ ~idleExpired(resp.preS) /\ resp.status = HTTP_UNAUTHORIZED

\* A step that keeps a session document never moves its lastActivity back.
LastActivityForward ==
    \A s \in 1..MaxSessions :
        (sessions[s].exists /\ sessions'[s].exists) =>
            sessions'[s].lastActivity >= sessions[s].lastActivity

\* C24: a session's lastActivity only moves forward: under every
\* interleaving of concurrent authenticated requests on one session no write
\* replaces the stored lastActivity with an earlier timestamp.
C24_LastActivityMonotone == [][LastActivityForward]_vars

\* A save of updateActivity arrived after a later one: the stored
\* lastActivity is older than the one an earlier response had written.
C24_WitnessOlderWrite ==
    /\ resp.op = "authenticate" /\ resp.status = HTTP_OK
    /\ \E w \in Workers : rq[w].pc = "idle"
    /\ sessions[resp.sid].lastActivity < resp.at
    /\ sessions[resp.sid].lastActivity = resp.preS.lastActivity

(* The TOTP secret of an enabled account *)

\* C25: in every reachable state of a Credential Record, also under
\* interleaved setupTOTP, verifyAndEnableTOTP and disableTOTP requests of
\* one user, totpEnabled = true implies that a non-empty totpSecret is
\* stored.
C25_EnabledHasSecret ==
    \A e \in Emails : users[e].totpEnabled => users[e].totpSecret # 0

\* A disableTOTP request read the account before TOTP was enabled and saved
\* after: TOTP is on and no secret is stored.
C25_WitnessSecretUnset ==
    /\ resp.op = "disableTOTP" /\ resp.status = HTTP_OK
    /\ users[resp.email].totpEnabled /\ users[resp.email].totpSecret = 0

(* The owner of the session of a request *)

\* C26: whenever authenticate lets a request through, the session of the
\* sessionToken cookie belongs to the subject of the verified access token:
\* one user's access token with another user's active session token is
\* rejected.
C26_SessionBelongsToSubject ==
    (resp.op = "authenticate" /\ resp.handlerRan) =>
        resp.preS.userId = resp.access.id

\* What authenticate does require of the session: it exists and is active.
C26_SessionActive ==
    (resp.op = "authenticate" /\ resp.handlerRan) =>
        resp.preS.exists /\ resp.preS.isActive

C26_WitnessForeignSession ==
    /\ resp.op = "authenticate" /\ resp.status = HTTP_OK
    /\ resp.preS.userId # resp.access.id
    /\ sessions[resp.sid].lastActivity = resp.at

(* Tokens for a suspended or locked account *)

TokenOps == {"login", "verifyTOTPLogin", "googleAuth", "refresh"}

Blocked(u, t) == u.isSuspended \/ LockedAt(u, t)

\* C27: while an account is suspended or locked no operation issues new
\* tokens for it: not login, not verifyTOTPLogin, not googleAuth and not
\* refreshAccessToken.
C27_NoTokensWhileBlocked ==
    (resp.op \in TokenOps /\ resp.tokens) => ~Blocked(resp.pre, resp.at)

\* The part login keeps: it issues no tokens for a suspended or locked
\* account; googleAuth issues none for a locked one.
C27_LoginRefusesBlocked ==
    /\ (resp.op = "login" /\ resp.tokens) => ~Blocked(resp.pre, resp.at)
    /\ (resp.op = "googleAuth" /\ resp.tokens) => ~LockedAt(resp.pre, resp.at)

C27_WitnessRefreshSuspended ==
    resp.op = "refresh" /\ resp.tokens /\ resp.pre.isSuspended

C27_WitnessRefreshLocked ==
    resp.op = "refresh" /\ resp.tokens /\ LockedAt(resp.pre, resp.at)

C27_WitnessTotpLoginLocked ==
    resp.op = "verifyTOTPLogin" /\ resp.tokens /\ LockedAt(resp.pre, resp.at)

C27_WitnessGoogleSuspended ==
    resp.op = "googleAuth" /\ resp.tokens /\ resp.pre.isSuspended

(* The failed-login counter *)

\* C28: in every reachable state failedLoginAttempts is between 0 and
\* maxFailedAttempts inclusive, and failedLoginAttempts >= maxFailedAttempts
\* implies accountLockedUntil is non-null, for every sequence of failed and
\* successful logins at any times, an attempt at the instant
\* accountLockedUntil equals now included.
C28_AttemptsBounded ==
    \A e \in Emails :
        /\ users[e].failedLoginAttempts >= 0
        /\ users[e].failedLoginAttempts <= maxFailedAttempts
        /\ users[e].failedLoginAttempts >= maxFailedAttempts
               => users[e].accountLockedUntil # NULL

\* The part that holds: a counter at or above the maximum has a lock set.
C28_MaxedIsLocked ==
    \A e \in Emails :
        /\ users[e].failedLoginAttempts >= 0
        /\ users[e].failedLoginAttempts >= maxFailedAttempts
               => users[e].accountLockedUntil # NULL

\* A wrong password at the instant the lock runs out: the sixth failure.
C28_WitnessExactInstant ==
    /\ resp.op = "login"
    /\ resp.pre.accountLockedUntil = resp.at
    /\ resp.pre.failedLoginAttempts = maxFailedAttempts
    /\ users[resp.email].failedLoginAttempts = maxFailedAttempts + 1

(* The secret that login codes are checked against *)

\* C29: setupTOTP on an account whose TOTP is enabled does not change the
\* secret verifyTOTPLogin checks codes against: that secret is always one a
\* valid code confirmed in verifyAndEnableTOTP (totpEnabled = true implies
\* totpVerified = true for the stored secret).
C29_LoginSecretConfirmed ==
    /\ \A e \in Emails : users[e].totpEnabled => users[e].totpVerified
    /\ (resp.op = "setupTOTP" /\ resp.handlerRan /\ resp.pre.totpEnabled) =>
           users[resp.email].totpSecret = resp.pre.totpSecret

\* setupTOTP leaves totpEnabled and the backup codes as they were.
C29_SetupKeepsEnabled ==
    (resp.op = "setupTOTP" /\ resp.handlerRan) =>
        /\ users[resp.email].totpEnabled = resp.pre.totpEnabled
        /\ users[resp.email].backupCodes = resp.pre.backupCodes
        /\ ~users[resp.email].totpVerified

\* A login code was accepted against a secret that setupTOTP stored on the
\* enabled account and that no code had confirmed.
C29_WitnessUnconfirmedSecret ==
    /\ resp.op = "verifyTOTPLogin" /\ resp.tokens /\ ~resp.useBackupCode
    /\ resp.pre.totpEnabled /\ ~resp.pre.totpVerified
    /\ resp.pre.totpSecret = 2

(* The persisted phone *)

\* C30: after any save of a Credential Record the persisted phone is null,
\* empty or an encrypted envelope, never plaintext: when encryptField fails
\* (the master key is absent, say) the save does not persist the plaintext
\* phone.
C30_PhoneNeverPlaintext ==
    \A e \in Emails :
        \/ users[e].phone = NullField
        \/ users[e].phone = StringField(<< >>)
        \/ isEncrypted(users[e].phone)

\* With the key set the persisted phone is an envelope of the phone given.
C30_EncryptedWhenKeySet ==
    crypto.pc = "env" /\ crypto.key # NoKey =>
        \A e \in Emails :
            \/ users[e].phone = NullField
            \/ /\ isEncrypted(users[e].phone)
               /\ decryptField(users[e].phone).value \in Phones

C30_WitnessPlaintext ==
    /\ resp.op = "updateProfile" /\ resp.status = HTTP_OK
    /\ crypto.key = NoKey
    /\ users[resp.email].phone.value \in Phones

C30_WitnessEncrypted ==
    /\ resp.op = "updateProfile" /\ resp.status = HTTP_OK
    /\ isEncrypted(users[resp.email].phone)

============================================================================
